---- MODULE Spec2Model ----
(***************************************************************************)
(* Risk gate, exit state machine, daily circuit breaker and trading-cycle  *)
(* orchestrator of options_trading_bot_2026, as implemented by             *)
(*   risk_mgmt_2026/risk_manager.py      (RiskManager2026)                 *)
(*   risk_mgmt_2026/portfolio_provider.py (PortfolioProvider2026)          *)
(*   execution_engine_2026/engine.py     (ExecutionEngine2026)             *)
(*   bull_module_2026/bull.py            (BullModule2026.execute_trade)    *)
(*                                                                         *)
(* Money is in whole dollars.  Percentages are kept as integer ratios:     *)
(* profit_pct = (current - entry) / entry is the pair <<num, den>>, and a  *)
(* stop price current * (1 - 0.08) is stored in cents as 92 * current, so  *)
(* every comparison the code makes on floats is made here on integers.     *)
(***************************************************************************)
EXTENDS Integers, Sequences, FiniteSets, TLC

\* ------------------------------------------------------------------ bounds
\* last calendar day the wall clock reaches (days are 0..MaxDay)
MaxDay == 1
\* update_daily_loss is no longer called once daily_loss exceeds this
LossCap == 1500

\* number of concurrent run_trading_cycle invocations
MaxCycles == 2
Cycles == 1..MaxCycles
\* number of run_async calls, and of handler threads start() can create
MaxRequests == 2
Requests == 1..MaxRequests
MaxThreads == 2
HandlerThreads == 1..MaxThreads
\* number of concurrent _execute_single_opportunity invocations
MaxTasks == 4
Tasks == 1..MaxTasks
\* last second the clock of the timed executions reaches
MaxTime == 5
\* last second the clock of the synchronous engine reaches
MaxSyncTime == 640

\* ---------------------------------------------- OptionsTradingBot2026.__init__
max_retries == 3

\* ------------------------------------------------ ExecutionEngine2026.__init__
execution_permits == 3
\* _min_execution_interval, in seconds
min_execution_interval == 2
\* _execute_best_opportunities: filtered_opps[:3]
max_executions_per_cycle == 3

\* ------------------------------------- BullModule2026 / BearModule2026.__init__
\* max_spread_cost_pct = 0.02, in percent
max_spread_cost_pct == 2
\* _calculate_position_size: the Kelly fraction is capped at 0.25, in percent
kelly_cap_pct == 25
\* _calculate_position_size: at most 10 contracts
max_contracts == 10

\* ------------------------------------------------ SyncExecutionEngine2026
\* config.get('ANALYSIS_INTERVAL', 300), in seconds
analysis_interval == 300
\* _run: time.sleep(1) after an iteration, time.sleep(30) after an exception
loop_sleep == 1
error_sleep == 30

\* --------------------------------------------------- RiskManager2026.__init__
daily_loss_limit == 1000
\* thresholds in percent
trailing_stop_threshold == 80
trailing_stop_pct == 8
take_profit_pct == 30
default_stop_loss_pct == 20
max_trade_size_pct == 10

TradeTypes == {"bull", "bear", "volatile", "other"}

stop_loss_pct(trade_type) ==
    CASE trade_type = "bull" -> 20
      [] trade_type = "bear" -> 15
      [] trade_type = "volatile" -> 30
      [] OTHER -> default_stop_loss_pct

\* ------------------------------------------------------------ input domains
TradeIds == {"AAPL_1", "MSFT_2"}
EntryPrices == {0, 50, 100}
Prices == {70, 79, 80, 81, 85, 130, 180, 181, 183, 184, 200}
LossAmounts == {300, 400, 1000}
\* the check_exit_conditions calls made: every combination for one trade, and a
\* few calls for a second trade held at the same time
ExitCalls ==
    {<<"AAPL_1", e, c, ty>> : e \in EntryPrices, c \in Prices, ty \in TradeTypes}
    \cup {<<"MSFT_2", 100, c, "bear">> : c \in {85, 180, 200}}

VARIABLES
    \* RiskManager2026 fields
    portfolio_value, daily_loss, trading_halted, current_date,
    trailing_stops, highest_profits,
    \* the wall clock's calendar day, read by date.today()
    today,
    \* position of the thread inside update_daily_loss, and its argument
    udl_pc, udl_amount,
    \* history: the last check_exit_conditions call and its result
    lastExit,
    \* history: the last update_daily_loss call, and the number of calls that
    \* returned True since the stored date last changed
    lastUpdate, trips,
    \* ExecutionEngine2026._execution_semaphore (free permits) and
    \* _last_execution_time (whether it is set)
    exec_sem, last_execution_time,
    \* position of each _execute_single_opportunity invocation
    tpc,
    \* ExecutionEngine2026.running and _cycle_semaphore (free permits)
    running, cycle_sem,
    \* position of each run_trading_cycle invocation
    cpc,
    \* the broker's open positions (by position id)
    positions,
    \* PortfolioMonitor2026.position_entry_prices
    position_entry_prices,
    \* position of the monitor thread, the positions its current iteration has
    \* still to check, and the position and reason of the close it is making
    mpc, mon_todo, mon_pos, mon_reason,
    \* RiskManager2026._open_symbols
    open_symbols,
    \* history: the last opportunity put through _filter_opportunities_by_risk,
    \* and the last check_risk_exposure call, with their results
    lastFilter, lastExposure,
    \* AsyncHandler2026._started, _shutdown_event, _request_queue
    h_started, shutdown_event, request_queue,
    \* the handler threads started so far, each one's position in
    \* _process_requests and the request it is running
    threads_spawned, hpc, hcur,
    \* each run_async call: the caller's position and its Future
    caller, future,
    \* history: how often each request was invoked and resolved, and the order
    \* of submissions and of invocations
    invoked, resolves, submitted, invocations,
    \* the request each handler thread has itself submitted through run_async
    \* and is waiting for (0: none)
    hwait,
    \* history: the requests whose function was invoked after their caller's
    \* wait had ended in TimeoutError
    late_invoked,
    \* the holders of ThreadSafeIBKRWrapper._lock and of RiskManager2026._lock
    wrapper_lock, risk_lock,
    \* each thread's position with respect to the two locks and the broker
    \* client, the method or critical section it is in, and what its last call
    \* into the broker client returned
    lpc, lcall, lret,
    \* OptionsTradingBot2026.running, error_counts['trading_cycle'] and the
    \* position of start_trading
    bot_running, trading_cycle_errors, spc,
    \* the scan_opportunities task of each strategy in the running cycle and what
    \* it returned, the merged all_opportunities, and the opportunities handed to
    \* _execute_single_opportunity (filtered_opps[:3])
    scans, scan_result, all_opportunities, handed,
    \* history: the last get_risk_metrics() snapshot
    lastMetrics,
    \* the wall clock in seconds, _last_execution_time as a time (-1: None), each
    \* timed execution's position and the time its sleep ends, and (history) the
    \* last start of an execute_trade call
    now, last_execution_at, xpc, wake_at, lastStart,
    \* the close action _process_strategy_management is carrying out, and
    \* (history) the last _close_position call
    mg_pending, lastClose,
    \* history: the last _calculate_position_size call
    lastSize,
    \* SyncExecutionEngine2026: running, trading_enabled, last_analysis_time (-1:
    \* None), where the _run thread is, the clock in seconds, whether the market
    \* is open; history: force_analysis() was called since the last cycle start,
    \* how the last cycle ended, and the last cycle start
    sync_running, trading_enabled, last_analysis_time, sync_pc, sync_clock, market_open,
    forced, lastCycle, cycleStart,
    \* history: whether the invocation last entered the cycle body after waiting
    \* for the cycle semaphore
    entered_waiting,
    \* history: whether the last wake-up of the monitor loop skipped its iteration
    \* because trading was halted, and the position whose closing order failed in
    \* the monitor's last step ("" otherwise)
    poll_skipped, failed_close,
    \* history: the requests run_async queued while the shutdown event was set
    queued_after_stop

riskVars == <<portfolio_value, daily_loss, trading_halted, current_date, today,
              udl_pc, udl_amount, lastUpdate, trips>>
exitVars == <<trailing_stops, highest_profits, lastExit>>
execVars == <<exec_sem, last_execution_time, tpc>>
cycleVars == <<running, cycle_sem, cpc>>
monVars == <<positions, position_entry_prices, mpc, mon_todo, mon_pos, mon_reason>>
gateVars == <<open_symbols, lastFilter, lastExposure>>
handlerVars == <<h_started, shutdown_event, request_queue, threads_spawned, hpc, hcur,
                 caller, future, invoked, resolves, submitted, invocations, hwait,
                 late_invoked>>
lockVars == <<wrapper_lock, risk_lock, lpc, lcall, lret>>
mainVars == <<bot_running, trading_cycle_errors, spc>>
scanVars == <<scans, scan_result, all_opportunities, handed>>
readVars == <<lastMetrics>>
timedVars == <<now, last_execution_at, xpc, wake_at, lastStart>>
manageVars == <<mg_pending, lastClose>>
sizeVars == <<lastSize>>
syncVars == <<sync_running, trading_enabled, last_analysis_time, sync_pc, sync_clock,
              market_open, forced, lastCycle, cycleStart>>
entryVars == <<entered_waiting>>
pollVars == <<poll_skipped, failed_close>>
stopVars == <<queued_after_stop>>
vars == <<riskVars, exitVars, execVars, cycleVars, monVars, gateVars, handlerVars, lockVars,
          mainVars, scanVars, readVars, timedVars, manageVars, sizeVars, syncVars,
          entryVars, pollVars, stopVars>>

NoExit == [trade |-> "", entry |-> 0, price |-> 0, type |-> "", had |-> FALSE,
           prevStop |-> 0, prevPeak |-> <<0, 1>>, close |-> FALSE, reason |-> "none"]
NoFilter == [symbol |-> "", held |-> FALSE, in_flight |-> FALSE, ret |-> FALSE]
NoExposure == [called |-> FALSE, opportunity |-> << >>, portfolio |-> 0, ret |-> FALSE]
NoUpdate == [amount |-> 0, prevLoss |-> 0, prevHalted |-> FALSE, prevDate |-> 0,
             callDay |-> 0, ret |-> "none"]

Abs(x) == IF x < 0 THEN -x ELSE x

\* a / b > c / d for positive denominators
RatioGT(a, b, c, d) == a * d > c * b

\* ----------------------------------------------------------- exit machine
\* new_stop = current_price * (1 - self.trailing_stop_pct), in cents
StopFor(current_price) == current_price * (100 - trailing_stop_pct)

SetEntry(f, k, v) == [x \in (DOMAIN f) \cup {k} |-> IF x = k THEN v ELSE f[x]]
DelEntry(f, k) == [x \in (DOMAIN f) \ {k} |-> f[x]]

\* mutant: the stop follows the price on every call
NextStop_follow(trade_id, current_price, num, den) == StopFor(current_price)

\* _handle_trailing_stop's new trailing_stops entry for trade_id
NextStop(trade_id, current_price, num, den) ==
    IF trade_id \notin DOMAIN trailing_stops
    THEN StopFor(current_price)
    ELSE IF /\ RatioGT(num, den, highest_profits[trade_id][1], highest_profits[trade_id][2])
            /\ StopFor(current_price) > trailing_stops[trade_id]
         THEN StopFor(current_price)
         ELSE trailing_stops[trade_id]

\* _handle_trailing_stop's new highest_profits entry for trade_id
NextPeak(trade_id, num, den) ==
    IF trade_id \notin DOMAIN highest_profits
    THEN <<num, den>>
    ELSE IF RatioGT(num, den, highest_profits[trade_id][1], highest_profits[trade_id][2])
         THEN <<num, den>>
         ELSE highest_profits[trade_id]

\* mutant: the close test is current_price < stop
TrailingResult_strict(trade_id, current_price, num, den) ==
    IF trade_id \notin DOMAIN trailing_stops
    THEN [close |-> FALSE, reason |-> "trailing_active"]
    ELSE IF current_price * 100 < NextStop(trade_id, current_price, num, den)
         THEN [close |-> TRUE, reason |-> "trailing_stop"]
         ELSE [close |-> FALSE, reason |-> "trailing_active"]

\* _handle_trailing_stop's return value
TrailingResult(trade_id, current_price, num, den) ==
    IF trade_id \notin DOMAIN trailing_stops
    THEN [close |-> FALSE, reason |-> "trailing_active"]
    ELSE IF current_price * 100 <= NextStop(trade_id, current_price, num, den)
         THEN [close |-> TRUE, reason |-> "trailing_stop"]
         ELSE [close |-> FALSE, reason |-> "trailing_active"]

\* whether check_exit_conditions delegates to _handle_trailing_stop
InTrailingRange(entry_price, current_price) ==
    /\ entry_price > 0
    /\ current_price > entry_price
    /\ (current_price - entry_price) * 100 >= trailing_stop_threshold * entry_price

\* mutant: take-profit needs a profit strictly above the threshold
StaticResult_strict(entry_price, current_price, trade_type) ==
    IF entry_price = 0
    THEN [close |-> FALSE, reason |-> "ZeroDivisionError"]
    ELSE IF current_price > entry_price
         THEN IF (current_price - entry_price) * 100 > take_profit_pct * entry_price
              THEN [close |-> TRUE, reason |-> "take_profit"]
              ELSE [close |-> FALSE, reason |-> "hold"]
         ELSE IF (entry_price - current_price) * 100 >= stop_loss_pct(trade_type) * entry_price
              THEN [close |-> TRUE, reason |-> "stop_loss"]
              ELSE [close |-> FALSE, reason |-> "hold"]

\* check_exit_conditions' return value on the paths that do not reach
\* _handle_trailing_stop
StaticResult(entry_price, current_price, trade_type) ==
    IF entry_price = 0
    THEN [close |-> FALSE, reason |-> "ZeroDivisionError"]
    ELSE IF current_price > entry_price
         THEN IF (current_price - entry_price) * 100 >= take_profit_pct * entry_price
              THEN [close |-> TRUE, reason |-> "take_profit"]
              ELSE [close |-> FALSE, reason |-> "hold"]
         ELSE IF (entry_price - current_price) * 100 >= stop_loss_pct(trade_type) * entry_price
              THEN [close |-> TRUE, reason |-> "stop_loss"]
              ELSE [close |-> FALSE, reason |-> "hold"]

ExitRecord(trade_id, entry_price, current_price, trade_type, res) ==
    [trade |-> trade_id, entry |-> entry_price, price |-> current_price,
     type |-> trade_type, had |-> trade_id \in DOMAIN trailing_stops,
     prevStop |-> IF trade_id \in DOMAIN trailing_stops
                  THEN trailing_stops[trade_id] ELSE 0,
     prevPeak |-> IF trade_id \in DOMAIN highest_profits
                  THEN highest_profits[trade_id] ELSE <<0, 1>>,
     close |-> res.close, reason |-> res.reason]

\* the effect of one check_exit_conditions call on the risk manager
ExitCall(trade_id, entry_price, current_price, trade_type) ==
    IF InTrailingRange(entry_price, current_price)
    THEN LET num == current_price - entry_price
             den == entry_price
         IN /\ trailing_stops' =
                   SetEntry(trailing_stops, trade_id,
                            NextStop(trade_id, current_price, num, den))
            /\ highest_profits' =
                   SetEntry(highest_profits, trade_id, NextPeak(trade_id, num, den))
            /\ lastExit' = ExitRecord(trade_id, entry_price, current_price, trade_type,
                                      TrailingResult(trade_id, current_price, num, den))
    ELSE /\ UNCHANGED <<trailing_stops, highest_profits>>
         /\ lastExit' = ExitRecord(trade_id, entry_price, current_price, trade_type,
                                   StaticResult(entry_price, current_price, trade_type))

check_exit_conditions(trade_id, entry_price, current_price, trade_type) ==
    /\ ExitCall(trade_id, entry_price, current_price, trade_type)
    /\ UNCHANGED <<riskVars, execVars, cycleVars, monVars, gateVars, handlerVars, lockVars,
                   mainVars, scanVars, readVars, timedVars, manageVars, sizeVars, syncVars,
                   entryVars, pollVars, stopVars>>

cleanup_trade(trade_id) ==
    /\ trailing_stops' = DelEntry(trailing_stops, trade_id)
    /\ highest_profits' = DelEntry(highest_profits, trade_id)
    /\ lastExit' = [NoExit EXCEPT !.trade = trade_id, !.reason = "cleanup"]
    /\ UNCHANGED <<riskVars, execVars, cycleVars, monVars, gateVars, handlerVars, lockVars,
                   mainVars, scanVars, readVars, timedVars, manageVars, sizeVars, syncVars,
                   entryVars, pollVars, stopVars>>

\* ------------------------------------------------------- daily circuit breaker
\* is_trading_halted(): the daily-loss test, or the drawdown test against
\* getattr(self, 'initial_portfolio_value', self.portfolio_value); the attribute
\* is assigned nowhere, so the fallback is the current portfolio value
initial_value == portfolio_value
is_trading_halted ==
    \/ Abs(daily_loss) >= daily_loss_limit
    \/ portfolio_value * 10 < initial_value * 8

\* the dates the second date.today() of update_daily_loss can return: the wall
\* clock may pass midnight between the comparison and the assignment
SecondRead == {today} \cup (IF today < MaxDay THEN {today + 1} ELSE {})

\* mutant: the stored date is never advanced
DateAfterCheck_stale(d2) == current_date
\* update_daily_loss, lines 128-131: the stored date after the date check
DateAfterCheck(d2) == IF today # current_date THEN d2 ELSE current_date
\* update_daily_loss, lines 128-132: daily_loss after the reset and the addition
LossAfterAdd(loss_amount) ==
    (IF today # current_date THEN 0 ELSE daily_loss) + loss_amount
\* mutant: the flag is cleared on every call
HaltedAfterCheck_clear == FALSE
\* mutant: the date-change reset leaves the flag as it is
HaltedAfterCheck_kept == trading_halted
\* update_daily_loss, lines 128-130: trading_halted after the date check
HaltedAfterCheck == IF today # current_date THEN FALSE ELSE trading_halted
\* mutant: the "not already halted" test is missing
Trips_again == daily_loss >= daily_loss_limit
\* update_daily_loss, lines 133-137: whether the call trips the breaker (and
\* returns True)
Trips == daily_loss >= daily_loss_limit /\ ~trading_halted

\* update_daily_loss up to and including line 132, holding the lock
UdlAdd(loss_amount) ==
    /\ udl_pc = "idle"
    /\ daily_loss <= LossCap
    /\ \E d2 \in (IF today # current_date THEN SecondRead ELSE {today}) :
          /\ current_date' = DateAfterCheck(d2)
          /\ today' = d2
    /\ daily_loss' = LossAfterAdd(loss_amount)
    /\ trading_halted' = HaltedAfterCheck
    /\ trips' = IF today # current_date THEN 0 ELSE trips
    /\ udl_pc' = "added"
    /\ udl_amount' = loss_amount
    /\ lastUpdate' = [amount |-> loss_amount, prevLoss |-> daily_loss,
                      prevHalted |-> trading_halted, prevDate |-> current_date,
                      callDay |-> today, ret |-> "none"]

\* update_daily_loss called on its own thread
update_daily_loss_add(loss_amount) ==
    /\ UdlAdd(loss_amount)
    /\ UNCHANGED <<portfolio_value, exitVars, execVars, cycleVars, monVars, gateVars,
                   handlerVars, lockVars, mainVars, scanVars, readVars, timedVars, manageVars,
                   sizeVars, syncVars, entryVars, pollVars, stopVars>>

\* update_daily_loss, lines 133-137, and the release of the lock on return
update_daily_loss_check ==
    /\ udl_pc = "added"
    /\ trading_halted' = (trading_halted \/ Trips)
    /\ lastUpdate' = [lastUpdate EXCEPT !.ret = IF Trips THEN "True" ELSE "False"]
    /\ trips' = trips + (IF Trips THEN 1 ELSE 0)
    /\ udl_pc' = "idle"
    /\ UNCHANGED <<portfolio_value, daily_loss, current_date, today, udl_amount, exitVars,
                   execVars, cycleVars, monVars, gateVars, handlerVars, lockVars, mainVars,
                   scanVars, readVars, timedVars, manageVars, sizeVars, syncVars, entryVars,
                   pollVars, stopVars>>

\* update_portfolio_value, as called by the position monitor with the account
\* value when it is positive
PortfolioValues == {5000, 10000}
update_portfolio_value(new_value) ==
    /\ udl_pc = "idle"
    /\ portfolio_value' = new_value
    /\ UNCHANGED <<daily_loss, trading_halted, current_date, today, udl_pc, udl_amount,
                   lastUpdate, trips, exitVars, execVars, cycleVars, monVars, gateVars,
                   handlerVars, lockVars, mainVars, scanVars, readVars, timedVars, manageVars,
                   sizeVars, syncVars, entryVars, pollVars, stopVars>>

\* the wall clock passes midnight
Midnight ==
    /\ today < MaxDay
    /\ today' = today + 1
    /\ UNCHANGED <<portfolio_value, daily_loss, trading_halted, current_date, udl_pc,
                   udl_amount, lastUpdate, trips, exitVars, execVars, cycleVars, monVars,
                   gateVars, handlerVars, lockVars, mainVars, scanVars, readVars, timedVars,
                   manageVars, sizeVars, syncVars, entryVars, pollVars, stopVars>>

\* ------------------------------------------------------------- risk gate
\* mutant: the whole remaining budget is allowed
calculate_max_trade_size_whole ==
    LET max_per_trade == portfolio_value * max_trade_size_pct
        remaining_daily_budget == daily_loss_limit - Abs(daily_loss)
    IN IF remaining_daily_budget * 100 < max_per_trade
       THEN (IF remaining_daily_budget > 0 THEN remaining_daily_budget * 100 ELSE 0)
       ELSE max_per_trade
\* calculate_max_trade_size(), in cents
calculate_max_trade_size ==
    LET max_per_trade == portfolio_value * max_trade_size_pct
        remaining_daily_budget == daily_loss_limit - Abs(daily_loss)
    IN IF remaining_daily_budget * 100 < max_per_trade
       THEN (IF remaining_daily_budget > 0 THEN remaining_daily_budget * 50 ELSE 0)
       ELSE max_per_trade

\* validate_trade_size(trade_size), trade_size in dollars
validate_trade_size(trade_size) == trade_size * 100 <= calculate_max_trade_size

\* PortfolioProvider2026.can_trade(trade_size)
can_trade(trade_size) == ~is_trading_halted /\ validate_trade_size(trade_size)

\* ------------------------------------------- _execute_single_opportunity
\* the opportunity each invocation is given: type, debit per share in dollars,
\* position_size in contracts
Opportunity(t) ==
    CASE t = 1 -> [type |-> "bull_call_spread", symbol |-> "AAPL", debit |-> 3,
                   max_loss |-> 3, position_size |-> 3]
      [] t = 2 -> [type |-> "bear_put_spread", symbol |-> "MSFT", debit |-> 3,
                   max_loss |-> 3, position_size |-> 1]
      [] t = 3 -> [type |-> "volatility_straddle", symbol |-> "NVDA", debit |-> 3,
                   max_loss |-> 3, position_size |-> 1]
      [] OTHER -> [type |-> "bull_call_spread", symbol |-> "AAPL", debit |-> 4,
                   max_loss |-> 4, position_size |-> 1]

\* lines 146-154: the module whose execute_trade is called; the test is
\* 'bull' in type, 'bear' in type, 'volatile' in type, and the volatile module's
\* type 'volatility_<strategy>' contains none of the three
Dispatch(strategy_type) ==
    CASE strategy_type = "bull_call_spread" -> "bull"
      [] strategy_type = "bear_put_spread" -> "bear"
      [] OTHER -> "none"

\* the trade size execute_trade passes to can_trade:
\* opportunity['debit'] * opportunity['position_size'] * 100
TradeCost(t) == Opportunity(t).debit * Opportunity(t).position_size * 100

\* mutant: acquire() never blocks
ExecSemFree_open == TRUE
\* whether acquire() of the execution semaphore takes a permit
ExecSemFree == exec_sem > 0

InSection(t) == tpc[t] \in {"acquired", "qualifying", "placed"}

\* a call of _execute_single_opportunity reaches "async with self._execution_semaphore"
ExecInvoke(t) ==
    /\ tpc[t] = "idle"
    /\ IF ExecSemFree
       THEN /\ exec_sem' = exec_sem - 1
            /\ tpc' = [tpc EXCEPT ![t] = "acquired"]
       ELSE /\ tpc' = [tpc EXCEPT ![t] = "waiting"]
            /\ UNCHANGED exec_sem
    /\ UNCHANGED <<last_execution_time, riskVars, exitVars, cycleVars, monVars, gateVars,
                   handlerVars, lockVars, mainVars, scanVars, readVars, timedVars, manageVars,
                   sizeVars, syncVars, entryVars, pollVars, stopVars>>

\* a waiting acquire() is granted a permit
ExecAcquire(t) ==
    /\ tpc[t] = "waiting"
    /\ ExecSemFree
    /\ exec_sem' = exec_sem - 1
    /\ tpc' = [tpc EXCEPT ![t] = "acquired"]
    /\ UNCHANGED <<last_execution_time, riskVars, exitVars, cycleVars, monVars, gateVars,
                   handlerVars, lockVars, mainVars, scanVars, readVars, timedVars, manageVars,
                   sizeVars, syncVars, entryVars, pollVars, stopVars>>

\* the semaphore's value after __aexit__
Released == exec_sem + 1

\* lines 139-154 with no module for the type: return False
ExecUnknown(t) ==
    /\ tpc[t] = "acquired"
    /\ Dispatch(Opportunity(t).type) = "none"
    /\ tpc' = [tpc EXCEPT ![t] = "idle"]
    /\ exec_sem' = Released
    /\ UNCHANGED <<last_execution_time, riskVars, exitVars, cycleVars, monVars, gateVars,
                   handlerVars, lockVars, mainVars, scanVars, readVars, timedVars, manageVars,
                   sizeVars, syncVars, entryVars, pollVars, stopVars>>

\* lines 139-152 and execute_trade up to its first broker call: the final risk
\* check fails (return None, then False) or the contracts are being qualified
ExecRiskCheck(t) ==
    /\ tpc[t] = "acquired"
    /\ Dispatch(Opportunity(t).type) # "none"
    /\ IF can_trade(TradeCost(t))
       THEN /\ tpc' = [tpc EXCEPT ![t] = "qualifying"]
            /\ UNCHANGED exec_sem
       ELSE /\ tpc' = [tpc EXCEPT ![t] = "idle"]
            /\ exec_sem' = Released
    /\ UNCHANGED <<last_execution_time, riskVars, exitVars, cycleVars, monVars, gateVars,
                   handlerVars, lockVars, mainVars, scanVars, readVars, timedVars, manageVars,
                   sizeVars, syncVars, entryVars, pollVars, stopVars>>

\* execute_trade after reqContractDetails: place_order is called and the broker
\* takes the order
ExecPlaceOrder(t) ==
    /\ tpc[t] = "qualifying"
    /\ tpc' = [tpc EXCEPT ![t] = "placed"]
    /\ UNCHANGED <<exec_sem, last_execution_time, riskVars, exitVars, cycleVars, monVars,
                   gateVars, handlerVars, lockVars, mainVars, scanVars, readVars,
                   timedVars, manageVars, sizeVars, syncVars, entryVars, pollVars, stopVars>>

\* execute_trade after reqContractDetails: no contract details, the broker
\* refuses the order, or a broker call raises; execute_trade returns None and
\* lines 161-164 return False
ExecNoOrder(t) ==
    /\ tpc[t] = "qualifying"
    /\ tpc' = [tpc EXCEPT ![t] = "idle"]
    /\ exec_sem' = Released
    /\ UNCHANGED <<last_execution_time, riskVars, exitVars, cycleVars, monVars, gateVars,
                   handlerVars, lockVars, mainVars, scanVars, readVars, timedVars, manageVars,
                   sizeVars, syncVars, entryVars, pollVars, stopVars>>

\* lines 156-159: a trade id came back; return True
ExecSuccess(t) ==
    /\ tpc[t] = "placed"
    /\ last_execution_time' = TRUE
    /\ tpc' = [tpc EXCEPT ![t] = "idle"]
    /\ exec_sem' = Released
    /\ UNCHANGED <<riskVars, exitVars, cycleVars, monVars, gateVars, handlerVars, lockVars,
                   mainVars, scanVars, readVars, timedVars, manageVars, sizeVars, syncVars,
                   entryVars, pollVars, stopVars>>

\* ------------------------------------------------------- run_trading_cycle
\* ExecutionEngine2026.start() and stop()
start ==
    /\ running' = TRUE
    /\ UNCHANGED <<cycle_sem, cpc, riskVars, exitVars, execVars, monVars, gateVars,
                   handlerVars, lockVars, mainVars, scanVars, readVars, timedVars, manageVars,
                   sizeVars, syncVars, entryVars, pollVars, stopVars>>

stop ==
    /\ running' = FALSE
    /\ UNCHANGED <<cycle_sem, cpc, riskVars, exitVars, execVars, monVars, gateVars,
                   handlerVars, lockVars, mainVars, scanVars, readVars, timedVars, manageVars,
                   sizeVars, syncVars, entryVars, pollVars, stopVars>>

\* mutant: acquire() never blocks
CycleSemFree_open == TRUE
\* whether acquire() of the cycle semaphore takes the permit
CycleSemFree == cycle_sem > 0

\* the positions inside "async with self._cycle_semaphore"
BodyPcs == {"check", "gather", "update", "screen", "scan", "execute", "manage"}
InBody(c) == cpc[c] \in BodyPcs

\* mutant: the permit is kept when the block is left
CycleLeave_held(c) ==
    /\ cpc' = [cpc EXCEPT ![c] = "idle"]
    /\ UNCHANGED cycle_sem
\* leaving the "async with" block by return, by the exception handler or at its end
CycleLeave(c) ==
    /\ cpc' = [cpc EXCEPT ![c] = "idle"]
    /\ cycle_sem' = cycle_sem + 1

CycleTo(c, pc) ==
    /\ cpc' = [cpc EXCEPT ![c] = pc]
    /\ UNCHANGED cycle_sem

\* lines 38-41: return when not running, else acquire the cycle semaphore or wait
CycleInvoke(c) ==
    /\ cpc[c] = "idle"
    /\ IF ~running
       THEN UNCHANGED <<cpc, cycle_sem, entered_waiting>>
       ELSE IF CycleSemFree
            THEN /\ cycle_sem' = cycle_sem - 1
                 /\ cpc' = [cpc EXCEPT ![c] = "check"]
                 /\ entered_waiting' = [entered_waiting EXCEPT ![c] = FALSE]
            ELSE /\ CycleTo(c, "waiting")
                 /\ UNCHANGED entered_waiting
    /\ UNCHANGED <<running, riskVars, exitVars, execVars, monVars, gateVars, handlerVars,
                   lockVars, mainVars, scanVars, readVars, timedVars, manageVars, sizeVars,
                   syncVars, pollVars, stopVars>>

\* a waiting acquire() is granted the permit
CycleAcquire(c) ==
    /\ cpc[c] = "waiting"
    /\ CycleSemFree
    /\ cycle_sem' = cycle_sem - 1
    /\ cpc' = [cpc EXCEPT ![c] = "check"]
    /\ entered_waiting' = [entered_waiting EXCEPT ![c] = TRUE]
    /\ UNCHANGED <<running, riskVars, exitVars, execVars, monVars, gateVars, handlerVars,
                   lockVars, mainVars, scanVars, readVars, timedVars, manageVars, sizeVars,
                   syncVars, pollVars, stopVars>>

\* lines 46-56: skip the cycle when halted; otherwise gather the market data,
\* which raises TypeError (caught at line 101) when get_risk_metrics() returned
\* a dict instead of an awaitable.  The engine takes its risk manager as a
\* constructor argument; metrics_awaitable is FALSE for RiskManager2026, whose
\* get_risk_metrics is a plain method
CycleHaltCheck(c, metrics_awaitable) ==
    /\ cpc[c] = "check"
    /\ IF is_trading_halted \/ ~metrics_awaitable
       THEN CycleLeave(c)
       ELSE CycleTo(c, "gather")
    /\ UNCHANGED <<running, riskVars, exitVars, execVars, monVars, gateVars, handlerVars,
                   lockVars, mainVars, scanVars, readVars, timedVars, manageVars, sizeVars,
                   syncVars, entryVars, pollVars, stopVars>>

\* line 56 completes; line 61 awaits _update_market_data
CycleGathered(c) ==
    /\ cpc[c] = "gather"
    /\ CycleTo(c, "update")
    /\ UNCHANGED <<running, riskVars, exitVars, execVars, monVars, gateVars, handlerVars,
                   lockVars, mainVars, scanVars, readVars, timedVars, manageVars, sizeVars,
                   syncVars, entryVars, pollVars, stopVars>>

\* line 61 completes; line 64 awaits screen_stocks
CycleUpdated(c) ==
    /\ cpc[c] = "update"
    /\ CycleTo(c, "screen")
    /\ UNCHANGED <<running, riskVars, exitVars, execVars, monVars, gateVars, handlerVars,
                   lockVars, mainVars, scanVars, readVars, timedVars, manageVars, sizeVars,
                   syncVars, entryVars, pollVars, stopVars>>

\* lines 64-81: return when there are no candidate symbols, else start the scans
CycleScreened(c, candidates) ==
    /\ cpc[c] = "screen"
    /\ IF candidates THEN CycleTo(c, "scan") ELSE CycleLeave(c)
    /\ UNCHANGED <<running, riskVars, exitVars, execVars, monVars, gateVars, handlerVars,
                   lockVars, mainVars, scanVars, readVars, timedVars, manageVars, sizeVars,
                   syncVars, entryVars, pollVars, stopVars>>

\* lines 81-98: the scans are done; execute the opportunities when there are
\* any, else go on to position management
CycleScanned(c, found) ==
    /\ cpc[c] = "scan"
    /\ CycleTo(c, IF found THEN "execute" ELSE "manage")
    /\ UNCHANGED <<running, riskVars, exitVars, execVars, monVars, gateVars, handlerVars,
                   lockVars, mainVars, scanVars, readVars, timedVars, manageVars, sizeVars,
                   syncVars, entryVars, pollVars, stopVars>>

\* line 93 completes; line 98 awaits _manage_existing_positions
CycleExecuted(c) ==
    /\ cpc[c] = "execute"
    /\ CycleTo(c, "manage")
    /\ UNCHANGED <<running, riskVars, exitVars, execVars, monVars, gateVars, handlerVars,
                   lockVars, mainVars, scanVars, readVars, timedVars, manageVars, sizeVars,
                   syncVars, entryVars, pollVars, stopVars>>

\* lines 98-100: the cycle is complete
CycleManaged(c) ==
    /\ cpc[c] = "manage"
    /\ CycleLeave(c)
    /\ UNCHANGED <<running, riskVars, exitVars, execVars, monVars, gateVars, handlerVars,
                   lockVars, mainVars, scanVars, readVars, timedVars, manageVars, sizeVars,
                   syncVars, entryVars, pollVars, stopVars>>

\* lines 101-102: an awaited collaborator call raised
CycleRaise(c) ==
    /\ cpc[c] \in {"gather", "update", "screen"}
    /\ CycleLeave(c)
    /\ UNCHANGED <<running, riskVars, exitVars, execVars, monVars, gateVars, handlerVars,
                   lockVars, mainVars, scanVars, readVars, timedVars, manageVars, sizeVars,
                   syncVars, entryVars, pollVars, stopVars>>

\* --------------------------------------------------- orchestrator risk filter
\* a value found in an opportunity dict: <<"absent">> when the key is missing,
\* <<"none">> for None, <<"str">> for a non-numeric string, <<"num", n>>
Num(n) == <<"num", n>>
\* dict.get(key, default)
Get(field, default) == IF field[1] = "absent" THEN default ELSE field

\* mutant: rejects a trade risk equal to the cap
check_risk_exposure_tight(opportunity) ==
    LET found == Get(opportunity.max_loss, <<"none">>)
        quantity == Get(opportunity.position_size, Num(1))
        max_loss == IF found[1] = "none" THEN Get(opportunity.debit, Num(0)) ELSE found
    IN IF max_loss[1] # "num" \/ quantity[1] # "num"
       THEN FALSE
       ELSE ~(max_loss[2] * quantity[2] * 100 * 100 >= portfolio_value * max_trade_size_pct)
\* check_risk_exposure: float(max_loss) * quantity * 100 against
\* portfolio_value * max_trade_size_pct (both sides in cents); float() of None or
\* of a non-numeric string and a product with a non-number raise, and the
\* handler at line 206 returns False
check_risk_exposure(opportunity) ==
    LET found == Get(opportunity.max_loss, <<"none">>)
        quantity == Get(opportunity.position_size, Num(1))
        max_loss == IF found[1] = "none" THEN Get(opportunity.debit, Num(0)) ELSE found
    IN IF max_loss[1] # "num" \/ quantity[1] # "num"
       THEN FALSE
       ELSE ~(max_loss[2] * quantity[2] * 100 * 100 > portfolio_value * max_trade_size_pct)

\* can_open_position, lines 176-183
can_open_position(symbol) == ~trading_halted /\ symbol \notin open_symbols

\* check_volatility_limits
check_volatility_limits(opportunity) == TRUE

\* the symbol of a broker position, and the position an opportunity's order opens
SymbolOf(position_id) == IF position_id = "AAPL_1" THEN "AAPL" ELSE "MSFT"
PositionOf(t) == IF Opportunity(t).symbol = "AAPL" THEN "AAPL_1" ELSE "MSFT_2"

\* the fields check_risk_exposure reads from a scanned opportunity
ExposureFields(t) ==
    [max_loss |-> Num(Opportunity(t).max_loss), debit |-> Num(Opportunity(t).debit),
     position_size |-> Num(Opportunity(t).position_size)]

\* _filter_opportunities_by_risk, lines 264-281, for one opportunity
FilterOpportunity(t) ==
    /\ lastFilter' =
           [symbol |-> Opportunity(t).symbol,
            held |-> \E p \in positions : SymbolOf(p) = Opportunity(t).symbol,
            in_flight |-> \E u \in Tasks : /\ Opportunity(u).symbol = Opportunity(t).symbol
                                           /\ tpc[u] # "idle",
            ret |-> /\ can_open_position(Opportunity(t).symbol)
                    /\ check_risk_exposure(ExposureFields(t))
                    /\ check_volatility_limits(ExposureFields(t))]
    /\ UNCHANGED <<open_symbols, lastExposure, riskVars, exitVars, execVars, cycleVars,
                   monVars, handlerVars, lockVars, mainVars, scanVars, readVars, timedVars,
                   manageVars, sizeVars, syncVars, entryVars, pollVars, stopVars>>

\* the broker fills the opening order a successful execution has placed
OrderFilled(t) ==
    /\ tpc[t] = "placed"
    /\ positions' = positions \cup {PositionOf(t)}
    /\ UNCHANGED <<position_entry_prices, mpc, mon_todo, mon_pos, mon_reason, riskVars,
                   exitVars, execVars, cycleVars, gateVars, handlerVars, lockVars, mainVars,
                   scanVars, readVars, timedVars, manageVars, sizeVars, syncVars, entryVars,
                   pollVars, stopVars>>

\* opportunity dicts given to check_risk_exposure
FieldValues == {<<"absent">>, <<"none">>, <<"str">>}
ExposureInputs ==
    [max_loss : FieldValues \cup {Num(0), Num(5)},
     debit : FieldValues \cup {Num(5), Num(20)},
     position_size : FieldValues \cup {Num(2), Num(3)}]

\* a call of check_risk_exposure
ExposureCall(opportunity) ==
    /\ lastExposure' = [called |-> TRUE, opportunity |-> opportunity,
                        portfolio |-> portfolio_value,
                        ret |-> check_risk_exposure(opportunity)]
    /\ UNCHANGED <<open_symbols, lastFilter, riskVars, exitVars, execVars, cycleVars, monVars,
                   handlerVars, lockVars, mainVars, scanVars, readVars, timedVars, manageVars,
                   sizeVars, syncVars, entryVars, pollVars, stopVars>>

\* ------------------------------------------------------- position monitor
\* position.avgCost, the entry price the monitor records for a new position
AvgCost == 100
\* per-unit market values the monitor observes
MonitorPrices == {70, 130, 180, 200}
\* unrealizedPNL of a position being closed: 0 for none or a gain, else the loss
CloseLosses == {0, 1000}
\* account values read by _update_portfolio_value; 0 stands for no update
\* (not due, not positive, or the read failed)
AccountValues == {0} \cup PortfolioValues

\* _determine_trade_type
TradeTypeOf(position_id) == IF position_id = "AAPL_1" THEN "bull" ELSE "bear"

\* the broker reports a new position (an opening order was filled)
PositionOpened(position_id) ==
    /\ position_id \notin positions
    /\ positions' = positions \cup {position_id}
    /\ UNCHANGED <<position_entry_prices, mpc, mon_todo, mon_pos, mon_reason, riskVars,
                   exitVars, execVars, cycleVars, gateVars, handlerVars, lockVars, mainVars,
                   scanVars, readVars, timedVars, manageVars, sizeVars, syncVars, entryVars,
                   pollVars, stopVars>>

\* mutant: the halt is not looked at
MonitorSkips_never == FALSE
\* _monitor_loop, lines 43-45: the iteration is skipped when trading is halted
MonitorSkips == is_trading_halted

\* _monitor_loop, lines 37-46: one wake-up; refresh the portfolio value when
\* due, skip the iteration when trading is halted, else fetch the positions
MonitorPoll(account_value) ==
    /\ mpc = "sleep"
    /\ udl_pc = "idle"
    /\ portfolio_value' = IF account_value > 0 THEN account_value ELSE portfolio_value
    /\ poll_skipped' = MonitorSkips
    /\ IF MonitorSkips
       THEN UNCHANGED <<mpc, mon_todo>>
       ELSE /\ mpc' = "check"
            /\ mon_todo' = positions
    /\ UNCHANGED <<daily_loss, trading_halted, current_date, today, udl_pc, udl_amount,
                   lastUpdate, trips, positions, position_entry_prices, mon_pos, mon_reason,
                   exitVars, execVars, cycleVars, gateVars, handlerVars, lockVars, mainVars,
                   scanVars, readVars, timedVars, manageVars, sizeVars, syncVars, entryVars,
                   failed_close, stopVars>>

\* _check_positions, lines 68-101: one position of the loop; record its entry
\* price when new, evaluate the exit conditions
MonitorCheckPosition(position_id, current_value) ==
    /\ mpc = "check"
    /\ position_id \in mon_todo
    /\ udl_pc = "idle"
    /\ LET entry_price == IF position_id \in DOMAIN position_entry_prices
                          THEN position_entry_prices[position_id] ELSE AvgCost
           num == current_value - entry_price
           res == IF InTrailingRange(entry_price, current_value)
                  THEN TrailingResult(position_id, current_value, num, entry_price)
                  ELSE StaticResult(entry_price, current_value,
                                    TradeTypeOf(position_id))
       IN /\ position_entry_prices' =
                 SetEntry(position_entry_prices, position_id, entry_price)
          /\ ExitCall(position_id, entry_price, current_value, TradeTypeOf(position_id))
          /\ mon_todo' = mon_todo \ {position_id}
          /\ failed_close' = ""
          /\ IF res.close
             THEN /\ mpc' = "closing"
                  /\ mon_pos' = position_id
                  /\ mon_reason' = res.reason
             ELSE UNCHANGED <<mpc, mon_pos, mon_reason>>
    /\ UNCHANGED <<positions, riskVars, execVars, cycleVars, gateVars, handlerVars, lockVars,
                   mainVars, scanVars, readVars, timedVars, manageVars, sizeVars, syncVars,
                   entryVars, poll_skipped, stopVars>>

\* PortfolioMonitor2026._close_position: place the closing order (placed: it did
\* not raise) and record the loss of a stop-loss close
MonitorClosePosition(placed, loss) ==
    /\ mpc = "closing"
    /\ positions' = IF placed THEN positions \ {mon_pos} ELSE positions
    /\ IF placed /\ mon_reason = "stop_loss" /\ loss > 0
       THEN UdlAdd(loss)
       ELSE UNCHANGED <<daily_loss, trading_halted, current_date, today, udl_pc,
                        udl_amount, lastUpdate, trips>>
    /\ mpc' = "cleanup"
    /\ failed_close' = IF placed THEN "" ELSE mon_pos
    /\ UNCHANGED <<portfolio_value, position_entry_prices, mon_todo, mon_pos, mon_reason,
                   exitVars, execVars, cycleVars, gateVars, handlerVars, lockVars, mainVars,
                   scanVars, readVars, timedVars, manageVars, sizeVars, syncVars, entryVars,
                   poll_skipped, stopVars>>

\* mutant: the tracking is kept when the closing order failed
MonitorCleanup_if_placed ==
    /\ mpc = "cleanup"
    /\ udl_pc = "idle"
    /\ trailing_stops' = IF failed_close = "" THEN DelEntry(trailing_stops, mon_pos)
                          ELSE trailing_stops
    /\ highest_profits' = IF failed_close = "" THEN DelEntry(highest_profits, mon_pos)
                           ELSE highest_profits
    /\ lastExit' = [NoExit EXCEPT !.trade = mon_pos, !.reason = "cleanup"]
    /\ position_entry_prices' = IF failed_close = ""
                                 THEN DelEntry(position_entry_prices, mon_pos)
                                 ELSE position_entry_prices
    /\ mpc' = "check"
    /\ mon_pos' = ""
    /\ mon_reason' = ""
    /\ UNCHANGED <<positions, mon_todo, riskVars, execVars, cycleVars, gateVars,
                   handlerVars, lockVars, mainVars, scanVars, readVars, timedVars,
                   manageVars, sizeVars, syncVars, entryVars, pollVars, stopVars>>
\* _check_positions, lines 104-106: cleanup_trade and forget the entry price,
\* once update_daily_loss has returned
MonitorCleanup ==
    /\ mpc = "cleanup"
    /\ udl_pc = "idle"
    /\ trailing_stops' = DelEntry(trailing_stops, mon_pos)
    /\ highest_profits' = DelEntry(highest_profits, mon_pos)
    /\ lastExit' = [NoExit EXCEPT !.trade = mon_pos, !.reason = "cleanup"]
    /\ position_entry_prices' = DelEntry(position_entry_prices, mon_pos)
    /\ mpc' = "check"
    /\ mon_pos' = ""
    /\ mon_reason' = ""
    /\ UNCHANGED <<positions, mon_todo, riskVars, execVars, cycleVars, gateVars, handlerVars,
                   lockVars, mainVars, scanVars, readVars, timedVars, manageVars, sizeVars,
                   syncVars, entryVars, pollVars, stopVars>>

\* _monitor_loop, line 47: the iteration is over
MonitorSleep ==
    /\ mpc = "check"
    /\ mon_todo = {}
    /\ mpc' = "sleep"
    /\ failed_close' = ""
    /\ UNCHANGED <<positions, position_entry_prices, mon_todo, mon_pos, mon_reason, riskVars,
                   exitVars, execVars, cycleVars, gateVars, handlerVars, lockVars, mainVars,
                   scanVars, readVars, timedVars, manageVars, sizeVars, syncVars, entryVars,
                   poll_skipped, stopVars>>

\* ------------------------------------------- orchestrator position management
\* reasons the strategies' manage_positions give for a close
CloseReasons == {"stop_loss", "profit_target", "take_profit_50pct", "stop_loss_30pct"}

\* ExecutionEngine2026._close_position, called from the position-management
\* phase of a cycle: place the closing order (placed: an order id came back) and
\* record the loss when the reason is 'stop_loss'
EngineClosePosition(position_id, reason, placed, loss) ==
    /\ \E c \in Cycles : cpc[c] = "manage"
    /\ position_id \in positions
    /\ positions' = IF placed THEN positions \ {position_id} ELSE positions
    /\ IF placed /\ reason = "stop_loss" /\ loss > 0
       THEN UdlAdd(loss)
       ELSE UNCHANGED <<daily_loss, trading_halted, current_date, today, udl_pc,
                        udl_amount, lastUpdate, trips>>
    /\ UNCHANGED <<portfolio_value, position_entry_prices, mpc, mon_todo, mon_pos, mon_reason,
                   exitVars, execVars, cycleVars, gateVars, handlerVars, lockVars, mainVars,
                   scanVars, readVars, timedVars, manageVars, sizeVars, syncVars, entryVars,
                   pollVars, stopVars>>

\* ------------------------------------------------------------ AsyncHandler2026
\* mutant: start() clears the shutdown event
ShutdownAfterStart_cleared == FALSE
\* start(), lines 36-47: nothing clears the shutdown event
ShutdownAfterStart == shutdown_event

\* AsyncHandler2026.start(): a second call is ignored; otherwise a new thread
\* runs _run_loop
AsyncHandler_start ==
    /\ IF h_started
       THEN UNCHANGED <<h_started, threads_spawned, hpc, shutdown_event>>
       ELSE /\ threads_spawned < MaxThreads
            /\ threads_spawned' = threads_spawned + 1
            /\ hpc' = [hpc EXCEPT ![threads_spawned + 1] = "polling"]
            /\ h_started' = TRUE
            /\ shutdown_event' = ShutdownAfterStart
    /\ UNCHANGED <<request_queue, hcur, caller, future, invoked, resolves, submitted,
                   invocations, hwait, late_invoked, riskVars, exitVars, execVars, cycleVars,
                   monVars, gateVars, lockVars, mainVars, scanVars, readVars, timedVars,
                   manageVars, sizeVars, syncVars, entryVars, pollVars, stopVars>>

\* AsyncHandler2026.stop(): set the shutdown event, join the thread for at most
\* 5 seconds, clear _started
AsyncHandler_stop ==
    /\ IF h_started
       THEN /\ shutdown_event' = TRUE
            /\ h_started' = FALSE
       ELSE UNCHANGED <<shutdown_event, h_started>>
    /\ UNCHANGED <<request_queue, threads_spawned, hpc, hcur, caller, future, invoked,
                   resolves, submitted, invocations, hwait, late_invoked, riskVars, exitVars,
                   execVars, cycleVars, monVars, gateVars, lockVars, mainVars, scanVars,
                   readVars, timedVars, manageVars, sizeVars, syncVars, entryVars, pollVars,
                   stopVars>>

\* run_async, lines 106-110: RuntimeError when not started, else a new Future
\* is queued with the request and the caller waits on it
run_async(r) ==
    /\ caller[r] = "idle"
    /\ IF ~h_started
       THEN /\ caller' = [caller EXCEPT ![r] = "RuntimeError"]
            /\ UNCHANGED <<future, request_queue, submitted, queued_after_stop>>
       ELSE /\ future' = [future EXCEPT ![r] = "pending"]
            /\ request_queue' = Append(request_queue, r)
            /\ submitted' = Append(submitted, r)
            /\ queued_after_stop' = IF shutdown_event THEN queued_after_stop \cup {r}
                                    ELSE queued_after_stop
            /\ caller' = [caller EXCEPT ![r] = "waiting"]
    /\ UNCHANGED <<h_started, shutdown_event, threads_spawned, hpc, hcur, invoked, resolves,
                   invocations, hwait, late_invoked, riskVars, exitVars, execVars, cycleVars,
                   monVars, gateVars, lockVars, mainVars, scanVars, readVars, timedVars,
                   manageVars, sizeVars, syncVars, entryVars, pollVars>>

\* mutant: the newest request is taken
NextRequest_newest == Len(request_queue)
\* queue.Queue.get_nowait(): the index of the request taken from the queue
NextRequest == 1

\* the queue without its element at index i
QueueWithout(i) ==
    [k \in 1..(Len(request_queue) - 1) |->
        IF k < i THEN request_queue[k] ELSE request_queue[k + 1]]

\* _process_requests, lines 74-85: leave the loop when the shutdown event is
\* set; sleep when the queue is empty; else take a request and call its function
HandlerPoll(h) ==
    /\ hpc[h] = "polling"
    /\ IF shutdown_event
       THEN /\ hpc' = [hpc EXCEPT ![h] = "exited"]
            /\ UNCHANGED <<request_queue, hcur, invoked, invocations, late_invoked>>
       ELSE IF request_queue = << >>
            THEN UNCHANGED <<hpc, request_queue, hcur, invoked, invocations,
                             late_invoked>>
            ELSE LET r == request_queue[NextRequest]
                 IN /\ request_queue' = QueueWithout(NextRequest)
                    /\ hpc' = [hpc EXCEPT ![h] = "running"]
                    /\ hcur' = [hcur EXCEPT ![h] = r]
                    /\ invoked' = [invoked EXCEPT ![r] = @ + 1]
                    /\ invocations' = Append(invocations, r)
                    /\ late_invoked' = IF caller[r] = "TimeoutError"
                                       THEN late_invoked \cup {r} ELSE late_invoked
    /\ UNCHANGED <<h_started, shutdown_event, threads_spawned, caller, future, resolves,
                   submitted, hwait, riskVars, exitVars, execVars, cycleVars, monVars,
                   gateVars, lockVars, mainVars, scanVars, readVars, timedVars, manageVars,
                   sizeVars, syncVars, entryVars, pollVars, stopVars>>

\* _process_requests, lines 86-90: the awaited call returns or raises and the
\* Future gets the result or the exception
HandlerFinish(h, outcome) ==
    /\ hpc[h] = "running"
    /\ future' = [future EXCEPT ![hcur[h]] = outcome]
    /\ resolves' = [resolves EXCEPT ![hcur[h]] = @ + 1]
    /\ hpc' = [hpc EXCEPT ![h] = "polling"]
    /\ hcur' = [hcur EXCEPT ![h] = 0]
    /\ UNCHANGED <<h_started, shutdown_event, request_queue, threads_spawned, caller, invoked,
                   submitted, invocations, hwait, late_invoked, riskVars, exitVars, execVars,
                   cycleVars, monVars, gateVars, lockVars, mainVars, scanVars, readVars,
                   timedVars, manageVars, sizeVars, syncVars, entryVars, pollVars, stopVars>>

\* run_async, line 114: future.result() returns the result or raises the
\* call's exception
CallerReturn(r) ==
    /\ caller[r] = "waiting"
    /\ future[r] \in {"result", "exception"}
    /\ caller' = [caller EXCEPT ![r] = IF future[r] = "result" THEN "returned" ELSE "raised"]
    /\ UNCHANGED <<h_started, shutdown_event, request_queue, threads_spawned, hpc, hcur,
                   future, invoked, resolves, submitted, invocations, hwait, late_invoked,
                   riskVars, exitVars, execVars, cycleVars, monVars, gateVars, lockVars,
                   mainVars, scanVars, readVars, timedVars, manageVars, sizeVars, syncVars,
                   entryVars, pollVars, stopVars>>

\* mutant: future.result() without a timeout
WaitBounded_forever == FALSE
\* future.result(timeout=30): the wait ends after 30 seconds
WaitBounded == TRUE

\* mutant: the timed-out request is taken out of the queue
QueueAfterTimeout_removed(r) == SelectSeq(request_queue, LAMBDA x : x # r)
\* run_async, lines 114-116: the except branch only raises; the request stays
\* where it is
QueueAfterTimeout(r) == request_queue

\* run_async, lines 114-116: the wait timed out with the Future unresolved
CallerTimeout(r) ==
    /\ caller[r] = "waiting"
    /\ WaitBounded
    /\ future[r] = "pending"
    /\ caller' = [caller EXCEPT ![r] = "TimeoutError"]
    /\ request_queue' = QueueAfterTimeout(r)
    /\ UNCHANGED <<h_started, shutdown_event, threads_spawned, hpc, hcur, future, invoked,
                   resolves, submitted, invocations, hwait, late_invoked, riskVars, exitVars,
                   execVars, cycleVars, monVars, gateVars, lockVars, mainVars, scanVars,
                   readVars, timedVars, manageVars, sizeVars, syncVars, entryVars, pollVars,
                   stopVars>>

\* run_async called by the handler thread itself, from inside the request it is
\* processing (lines 86, 106-114): the same code runs, so the request is queued
\* and the handler thread blocks in future.result(timeout=30)
HandlerNestedCall(h, r) ==
    /\ hpc[h] = "running"
    /\ caller[r] = "idle"
    /\ IF ~h_started
       THEN /\ caller' = [caller EXCEPT ![r] = "RuntimeError"]
            /\ UNCHANGED <<future, request_queue, submitted, queued_after_stop, hpc, hwait>>
       ELSE /\ future' = [future EXCEPT ![r] = "pending"]
            /\ request_queue' = Append(request_queue, r)
            /\ submitted' = Append(submitted, r)
            /\ queued_after_stop' = IF shutdown_event THEN queued_after_stop \cup {r}
                                    ELSE queued_after_stop
            /\ caller' = [caller EXCEPT ![r] = "waiting"]
            /\ hpc' = [hpc EXCEPT ![h] = "blocked"]
            /\ hwait' = [hwait EXCEPT ![h] = r]
    /\ UNCHANGED <<h_started, shutdown_event, threads_spawned, hcur, invoked, resolves,
                   invocations, late_invoked, riskVars, exitVars, execVars, cycleVars,
                   monVars, gateVars, lockVars, mainVars, scanVars, readVars, timedVars,
                   manageVars, sizeVars, syncVars, entryVars, pollVars>>

\* the handler thread's own run_async call has returned or raised, and the
\* request it is processing goes on (line 86)
HandlerNestedEnd(h) ==
    /\ hpc[h] = "blocked"
    /\ caller[hwait[h]] \in {"returned", "raised", "TimeoutError"}
    /\ hpc' = [hpc EXCEPT ![h] = "running"]
    /\ hwait' = [hwait EXCEPT ![h] = 0]
    /\ UNCHANGED <<h_started, shutdown_event, request_queue, threads_spawned, hcur, caller,
                   future, invoked, resolves, submitted, invocations, late_invoked, riskVars,
                   exitVars, execVars, cycleVars, monVars, gateVars, lockVars, mainVars,
                   scanVars, readVars, timedVars, manageVars, sizeVars, syncVars, entryVars,
                   pollVars, stopVars>>

\* ---------------------------------------- locks and calls into the broker client
\* the threads that call the broker client and the risk manager: the one that
\* runs the trading cycles and the position monitor's
Threads == {"orchestrator", "monitor"}

NoReturn == [method |-> "", outcome |-> "", value |-> ""]

\* the methods ThreadSafeIBKRWrapper defines itself, each under its lock
WrapperMethods == {"get_account_value", "get_market_data", "get_options_chain",
                   "get_historical_data", "place_order", "get_positions",
                   "reqContractDetails"}
\* the wrapper methods the code run by each thread calls
WrapperCallsOf(t) ==
    IF t = "monitor" THEN {"get_account_value", "get_positions"} ELSE WrapperMethods
\* the attributes each thread reaches on the broker client that the wrapper
\* does not define, and so hands out through __getattr__
DelegatedCallsOf(t) ==
    IF t = "monitor" THEN {"ib.placeOrder"}
    ELSE {"reqMktData", "reqHistoricalData", "reqNewsArticle"}
\* the critical sections of RiskManager2026 each thread enters
RiskSectionsOf(t) ==
    IF t = "monitor"
    THEN {"update_portfolio_value", "_handle_trailing_stop", "update_daily_loss",
          "cleanup_trade"}
    ELSE {"update_daily_loss"}

\* what the underlying client does with a call: return data, return None or
\* an empty value, or raise
ClientOutcomes == {"value", "falsy", "raise"}

\* the value each wrapper method returns from its except branch
NoData(method) ==
    CASE method = "get_account_value" -> "0.0"
      [] method = "get_market_data" -> "{}"
      [] method = "place_order" -> "None"
      [] OTHER -> "[]"

\* mutant: the client's exception reaches the caller
WrapperResult_propagates(method, outcome) ==
    IF outcome = "raise" THEN "exception"
    ELSE IF outcome = "falsy"
              /\ method \in {"get_market_data", "get_options_chain", "get_positions",
                             "reqContractDetails"}
         THEN NoData(method)
         ELSE outcome
\* what a wrapper method returns: the except branch's value when the client
\* raised, the "or {}" / "or []" value when the client returned nothing, else
\* the client's return value
WrapperResult(method, outcome) ==
    IF outcome = "raise" THEN NoData(method)
    ELSE IF outcome = "falsy"
              /\ method \in {"get_market_data", "get_options_chain", "get_positions",
                             "reqContractDetails"}
         THEN NoData(method)
         ELSE outcome

\* mutant: update_portfolio_value fetches the account value itself, inside its
\* critical section
SectionBrokerCalls_fetch(section) ==
    IF section = "update_portfolio_value" THEN {"get_account_value"} ELSE {}
\* the broker calls made inside a critical section of the risk manager
SectionBrokerCalls(section) == {}

\* a call into the broker client is in progress on thread t
InBrokerCall(t) == lpc[t] \in {"wrapper", "delegated", "risk_broker"}

\* a wrapper method up to the call into the client: "with self._lock" is passed
\* when the lock is free
WrapperCall(t, method) ==
    /\ lpc[t] = "idle"
    /\ method \in WrapperCallsOf(t)
    /\ wrapper_lock = "free"
    /\ wrapper_lock' = t
    /\ lpc' = [lpc EXCEPT ![t] = "wrapper"]
    /\ lcall' = [lcall EXCEPT ![t] = method]
    /\ UNCHANGED <<risk_lock, lret, riskVars, exitVars, execVars, cycleVars, monVars,
                   gateVars, handlerVars, mainVars, scanVars, readVars, timedVars, manageVars,
                   sizeVars, syncVars, entryVars, pollVars, stopVars>>

\* the client's call ends, the wrapper method returns and leaves the with block
WrapperReturn(t, outcome) ==
    /\ lpc[t] = "wrapper"
    /\ wrapper_lock' = "free"
    /\ lret' = [lret EXCEPT ![t] = [method |-> lcall[t], outcome |-> outcome,
                                    value |-> WrapperResult(lcall[t], outcome)]]
    /\ lpc' = [lpc EXCEPT ![t] = "idle"]
    /\ lcall' = [lcall EXCEPT ![t] = ""]
    /\ UNCHANGED <<risk_lock, riskVars, exitVars, execVars, cycleVars, monVars, gateVars,
                   handlerVars, mainVars, scanVars, readVars, timedVars, manageVars, sizeVars,
                   syncVars, entryVars, pollVars, stopVars>>

\* ThreadSafeIBKRWrapper.__getattr__ returns the client's own attribute, and
\* the caller calls it
DelegatedCall(t, name) ==
    /\ lpc[t] = "idle"
    /\ name \in DelegatedCallsOf(t)
    /\ lpc' = [lpc EXCEPT ![t] = "delegated"]
    /\ lcall' = [lcall EXCEPT ![t] = name]
    /\ UNCHANGED <<wrapper_lock, risk_lock, lret, riskVars, exitVars, execVars, cycleVars,
                   monVars, gateVars, handlerVars, mainVars, scanVars, readVars, timedVars,
                   manageVars, sizeVars, syncVars, entryVars, pollVars, stopVars>>

\* the client's attribute returns or raises to the caller
DelegatedReturn(t, outcome) ==
    /\ lpc[t] = "delegated"
    /\ lret' = [lret EXCEPT ![t] = [method |-> lcall[t], outcome |-> outcome,
                                    value |-> IF outcome = "raise" THEN "exception"
                                              ELSE outcome]]
    /\ lpc' = [lpc EXCEPT ![t] = "idle"]
    /\ lcall' = [lcall EXCEPT ![t] = ""]
    /\ UNCHANGED <<wrapper_lock, risk_lock, riskVars, exitVars, execVars, cycleVars, monVars,
                   gateVars, handlerVars, mainVars, scanVars, readVars, timedVars, manageVars,
                   sizeVars, syncVars, entryVars, pollVars, stopVars>>

\* "with self._lock" of a risk-manager method is passed
RiskEnter(t, section) ==
    /\ lpc[t] = "idle"
    /\ section \in RiskSectionsOf(t)
    /\ risk_lock = "free"
    /\ risk_lock' = t
    /\ lpc' = [lpc EXCEPT ![t] = IF SectionBrokerCalls(section) = {}
                                 THEN "risk" ELSE "risk_broker"]
    /\ lcall' = [lcall EXCEPT ![t] = section]
    /\ UNCHANGED <<wrapper_lock, lret, riskVars, exitVars, execVars, cycleVars, monVars,
                   gateVars, handlerVars, mainVars, scanVars, readVars, timedVars, manageVars,
                   sizeVars, syncVars, entryVars, pollVars, stopVars>>

\* the risk-manager method returns and leaves the with block
RiskLeave(t) ==
    /\ lpc[t] \in {"risk", "risk_broker"}
    /\ risk_lock' = "free"
    /\ lpc' = [lpc EXCEPT ![t] = "idle"]
    /\ lcall' = [lcall EXCEPT ![t] = ""]
    /\ UNCHANGED <<wrapper_lock, lret, riskVars, exitVars, execVars, cycleVars, monVars,
                   gateVars, handlerVars, mainVars, scanVars, readVars, timedVars, manageVars,
                   sizeVars, syncVars, entryVars, pollVars, stopVars>>

\* ------------------------------------------ OptionsTradingBot2026.start_trading
\* the cycle invocation made by the bot's loop
LoopCycle == 1

\* what check_component_health does; the method is called at line 84 and is
\* defined by no file of src/
HealthOutcomes == {"healthy", "unhealthy", "raise"}

\* lines 79-80
start_trading ==
    /\ spc = "init"
    /\ bot_running' = TRUE
    /\ spc' = "loop"
    /\ UNCHANGED <<trading_cycle_errors, riskVars, exitVars, execVars, cycleVars, monVars,
                   gateVars, handlerVars, lockVars, scanVars, readVars, timedVars, manageVars,
                   sizeVars, syncVars, entryVars, pollVars, stopVars>>

\* line 82: while self.running
LoopTest ==
    /\ spc = "loop"
    /\ spc' = IF bot_running THEN "health" ELSE "returned"
    /\ UNCHANGED <<bot_running, trading_cycle_errors, riskVars, exitVars, execVars, cycleVars,
                   monVars, gateVars, handlerVars, lockVars, scanVars, readVars, timedVars,
                   manageVars, sizeVars, syncVars, entryVars, pollVars, stopVars>>

\* line 98: the test that ends the loop
GivesUp(count) == count >= max_retries

\* lines 84-87 and, when the call raises, the handler of lines 95-102: count the
\* failure; at max_retries shut the bot down (which stops the engine) and break
HealthCheck(outcome) ==
    /\ spc = "health"
    /\ IF outcome = "raise"
       THEN /\ trading_cycle_errors' = trading_cycle_errors + 1
            /\ IF GivesUp(trading_cycle_errors + 1)
               THEN /\ bot_running' = FALSE
                    /\ running' = FALSE
                    /\ spc' = "stopped"
               ELSE /\ spc' = "backoff"
                    /\ UNCHANGED <<bot_running, running>>
       ELSE /\ spc' = IF outcome = "healthy" THEN "cycle" ELSE "sleep"
            /\ UNCHANGED <<bot_running, trading_cycle_errors, running>>
    /\ UNCHANGED <<cycle_sem, cpc, riskVars, exitVars, execVars, monVars, gateVars,
                   handlerVars, lockVars, scanVars, readVars, timedVars, manageVars, sizeVars,
                   syncVars, entryVars, pollVars, stopVars>>

\* line 89: run_trading_cycle is called (engine.py:38-41); it returns at once
\* when the engine is not running
TickRunCycle ==
    /\ spc = "cycle"
    /\ cpc[LoopCycle] = "idle"
    /\ IF ~running
       THEN /\ spc' = "monitor"
            /\ UNCHANGED <<cpc, cycle_sem>>
       ELSE /\ CycleSemFree
            /\ cycle_sem' = cycle_sem - 1
            /\ cpc' = [cpc EXCEPT ![LoopCycle] = "check"]
            /\ spc' = "in_cycle"
    /\ UNCHANGED <<running, bot_running, trading_cycle_errors, riskVars, exitVars, execVars,
                   monVars, gateVars, handlerVars, lockVars, scanVars, readVars, timedVars,
                   manageVars, sizeVars, syncVars, entryVars, pollVars, stopVars>>

\* line 89 completes: run_trading_cycle has returned (it catches its own
\* exceptions, engine.py:101)
TickCycleReturned ==
    /\ spc = "in_cycle"
    /\ cpc[LoopCycle] = "idle"
    /\ spc' = "monitor"
    /\ UNCHANGED <<bot_running, trading_cycle_errors, riskVars, exitVars, execVars, cycleVars,
                   monVars, gateVars, handlerVars, lockVars, scanVars, readVars, timedVars,
                   manageVars, sizeVars, syncVars, entryVars, pollVars, stopVars>>

\* lines 90-93: update_monitor (which catches its own exceptions), then the
\* sleep until the next tick
TickUpdateMonitor ==
    /\ spc = "monitor"
    /\ spc' = "sleep"
    /\ UNCHANGED <<bot_running, trading_cycle_errors, riskVars, exitVars, execVars, cycleVars,
                   monVars, gateVars, handlerVars, lockVars, scanVars, readVars, timedVars,
                   manageVars, sizeVars, syncVars, entryVars, pollVars, stopVars>>

\* the sleep of line 86, 93 or 102 is over
TickWake ==
    /\ spc \in {"sleep", "backoff"}
    /\ spc' = "loop"
    /\ UNCHANGED <<bot_running, trading_cycle_errors, riskVars, exitVars, execVars, cycleVars,
                   monVars, gateVars, handlerVars, lockVars, scanVars, readVars, timedVars,
                   manageVars, sizeVars, syncVars, entryVars, pollVars, stopVars>>

\* shutdown(), run by the signal handler when the operator stops the bot
shutdown ==
    /\ bot_running
    /\ bot_running' = FALSE
    /\ running' = FALSE
    /\ UNCHANGED <<trading_cycle_errors, spc, cycle_sem, cpc, riskVars, exitVars, execVars,
                   monVars, gateVars, handlerVars, lockVars, scanVars, readVars, timedVars,
                   manageVars, sizeVars, syncVars, entryVars, pollVars, stopVars>>

\* ---------------------------------------- run_trading_cycle, scans to executions
\* the strategy modules, in the order lines 72-77 start their scans
Strategies == {"bull", "bear", "volatile"}
StrategyOrder == <<"bull", "bear", "volatile">>

\* the module that produces each opportunity
StrategyOf(t) ==
    CASE Opportunity(t).type = "bull_call_spread" -> "bull"
      [] Opportunity(t).type = "bear_put_spread" -> "bear"
      [] OTHER -> "volatile"
OppsOf(s) == {t \in Tasks : StrategyOf(t) = s}

\* opportunity['score']
Score(t) ==
    CASE t = 1 -> 85
      [] t = 2 -> 90
      [] t = 3 -> 80
      [] OTHER -> 80

\* the elements of a set of opportunities in the order their symbols are analysed
RECURSIVE SeqOfSet(_)
SeqOfSet(S) ==
    IF S = {} THEN << >>
    ELSE LET m == CHOOSE x \in S : \A y \in S : x <= y
         IN <<m>> \o SeqOfSet(S \ {m})

\* mutant: ascending order
RECURSIVE InsertByScore_ascending(_, _)
InsertByScore_ascending(t, seq) ==
    IF seq = << >> THEN <<t>>
    ELSE IF Score(t) < Score(Head(seq)) THEN <<t>> \o seq
         ELSE <<Head(seq)>> \o InsertByScore_ascending(t, Tail(seq))
\* list.sort / sorted with key score and reverse=True: a stable sort, so an
\* element goes behind the elements of equal score that precede it
RECURSIVE InsertByScore(_, _)
InsertByScore(t, seq) ==
    IF seq = << >> THEN <<t>>
    ELSE IF Score(t) > Score(Head(seq)) THEN <<t>> \o seq
         ELSE <<Head(seq)>> \o InsertByScore(t, Tail(seq))

RECURSIVE SortedByScore(_)
SortedByScore(seq) ==
    IF seq = << >> THEN << >>
    ELSE InsertByScore(seq[Len(seq)], SortedByScore(SubSeq(seq, 1, Len(seq) - 1)))

\* seq[:n]
Take(seq, n) == SubSeq(seq, 1, IF Len(seq) < n THEN Len(seq) ELSE n)

\* how many opportunities a scan returns at most: opportunities[:3], and
\* opportunities[:2] in the volatile module
ScanLimit(s) == IF s = "volatile" THEN 2 ELSE 3

\* what scan_opportunities of a strategy can return: the symbols whose analysis
\* raised or found nothing are left out, the rest is sorted by score and cut
ScanResults(s) == {Take(SortedByScore(SeqOfSet(S)), ScanLimit(s)) : S \in SUBSET OppsOf(s)}

\* mutant: one failed scan discards the results of all
Collected_abort(s) ==
    IF \E u \in Strategies : scans[u] = "raised" THEN << >>
    ELSE IF scans[s] = "returned" THEN scan_result[s] ELSE << >>
\* lines 84-90: what a scan contributes to all_opportunities; an exception
\* returned by gather(return_exceptions=True) is logged and skipped
Collected(s) == IF scans[s] = "returned" THEN scan_result[s] ELSE << >>

\* lines 84-90: the results in the order of the tasks
Merged == Collected(StrategyOrder[1]) \o Collected(StrategyOrder[2])
              \o Collected(StrategyOrder[3])

\* _filter_opportunities_by_risk, lines 264-281, for one opportunity
PassesRiskFilter(t) ==
    /\ can_open_position(Opportunity(t).symbol)
    /\ check_risk_exposure(ExposureFields(t))
    /\ check_volatility_limits(ExposureFields(t))

\* _execute_best_opportunities, lines 107-113: sort by score, filter, and take
\* the first three
Selection(opportunities) ==
    Take(SelectSeq(SortedByScore(opportunities), PassesRiskFilter),
         max_executions_per_cycle)

\* mutant: gather returns as soon as one scan is done
ScansDone_any == \E s \in Strategies : scans[s] # "running"
\* line 81: asyncio.gather returns when every scan has returned or raised
ScansDone == \A s \in Strategies : scans[s] # "running"

\* line 116: asyncio.gather returns when every execution has returned
ExecutionsDone == \A t \in Tasks : tpc[t] = "idle"

Range(seq) == {seq[i] : i \in 1..Len(seq)}

\* lines 64-77: return when there are no candidate symbols; else start the scan
\* of every strategy the sentiment selects
ScanStart(candidates, sentiment) ==
    /\ cpc[LoopCycle] = "screen"
    /\ IF candidates
       THEN /\ CycleTo(LoopCycle, "scan")
            /\ scans' = [s \in Strategies |-> IF s \in sentiment THEN "running" ELSE "off"]
            /\ scan_result' = [s \in Strategies |-> << >>]
            /\ all_opportunities' = << >>
            /\ handed' = << >>
       ELSE /\ CycleLeave(LoopCycle)
            /\ UNCHANGED scanVars
    /\ UNCHANGED <<running, riskVars, exitVars, execVars, monVars, gateVars, handlerVars,
                   lockVars, mainVars, readVars, timedVars, manageVars, sizeVars, syncVars,
                   entryVars, pollVars, stopVars>>

\* a strategy's scan_opportunities returns its list or raises
ScanFinish(s, raised, result) ==
    /\ cpc[LoopCycle] = "scan"
    /\ scans[s] = "running"
    /\ scans' = [scans EXCEPT ![s] = IF raised THEN "raised" ELSE "returned"]
    /\ scan_result' = [scan_result EXCEPT ![s] = IF raised THEN << >> ELSE result]
    /\ UNCHANGED <<all_opportunities, handed, riskVars, exitVars, execVars, cycleVars,
                   monVars, gateVars, handlerVars, lockVars, mainVars, readVars, timedVars,
                   manageVars, sizeVars, syncVars, entryVars, pollVars, stopVars>>

\* lines 81-98 and 104-114: the gathered results are merged; when there are
\* opportunities they are sorted and filtered, and the first three that remain
\* are given to _execute_single_opportunity, each of which enters the execution
\* semaphore; with nothing to execute the cycle goes on to position management
ScansGathered ==
    /\ cpc[LoopCycle] = "scan"
    /\ ScansDone
    /\ all_opportunities' = Merged
    /\ LET chosen == Selection(Merged)
       IN /\ handed' = chosen
          /\ tpc' = [t \in Tasks |-> IF t \in Range(chosen) THEN "acquired" ELSE tpc[t]]
          /\ exec_sem' = exec_sem - Len(chosen)
          /\ CycleTo(LoopCycle, IF chosen = << >> THEN "manage" ELSE "execute")
    /\ UNCHANGED <<scans, scan_result, last_execution_time, running, riskVars, exitVars,
                   monVars, gateVars, handlerVars, lockVars, mainVars, readVars, timedVars,
                   manageVars, sizeVars, syncVars, entryVars, pollVars, stopVars>>

\* lines 116-128 and 98: the executions are gathered and position management
\* begins
ExecutionsGathered ==
    /\ cpc[LoopCycle] = "execute"
    /\ ExecutionsDone
    /\ CycleTo(LoopCycle, "manage")
    /\ UNCHANGED <<running, riskVars, exitVars, execVars, monVars, gateVars, handlerVars,
                   lockVars, mainVars, scanVars, readVars, timedVars, manageVars, sizeVars,
                   syncVars, entryVars, pollVars, stopVars>>

\* ------------------------------------------------------------ risk readers
NoMetrics == [read |-> FALSE, daily_loss |-> 0, trading_halted |-> FALSE]

\* get_risk_metrics, lines 215-223: the fields are read without taking _lock,
\* so the call runs at any point of an update_daily_loss on another thread
\* (is_trading_halted, can_open_position and calculate_max_trade_size read the
\* same way)
get_risk_metrics ==
    /\ lastMetrics' = [read |-> TRUE, daily_loss |-> daily_loss,
                       trading_halted |-> trading_halted]
    /\ UNCHANGED <<riskVars, exitVars, execVars, cycleVars, monVars, gateVars, handlerVars,
                   lockVars, mainVars, scanVars, timedVars, manageVars, sizeVars, syncVars,
                   entryVars, pollVars, stopVars>>

\* ------------------------------------------------------- timed executions
\* the _execute_single_opportunity tasks one cycle creates (line 116: at most
\* three); `now` is the clock in seconds, last_execution_at the value of
\* _last_execution_time (-1 for None), wake_at[t] the deadline of the
\* asyncio.sleep task t is in, lastStart[t] the clock and the value of
\* _last_execution_time when task t called execute_trade
TimedTasks == 1..execution_permits
NoStart == [task |-> 0, at |-> 0, last |-> -1]

\* IBKRClient2026.place_order: await asyncio.sleep(1) between ib.placeOrder and
\* the order id
order_ack_delay == 1

\* mutant: the interval is never waited for
MustWait_never == FALSE
\* lines 139-142: there was a successful execution and less than the interval
\* has passed since
MustWait ==
    /\ last_execution_at # -1
    /\ now - last_execution_at < min_execution_interval

\* a timer of the event loop is due for task t
TimerDue(t) == xpc[t] \in {"sleeping", "placed"} /\ wake_at[t] <= now

\* lines 116-120 and 136-152: gather starts the tasks of a cycle, and each runs
\* to its first suspension before the event loop does anything else: it takes
\* a permit, reads the clock and either sleeps for the rest of the interval or
\* calls execute_trade
ExecutionsLaunched(S) ==
    /\ S # {}
    /\ \A t \in TimedTasks : xpc[t] = "idle"
    /\ exec_sem >= Cardinality(S)
    /\ exec_sem' = exec_sem - Cardinality(S)
    /\ xpc' = [t \in TimedTasks |->
                  IF t \notin S THEN "idle"
                  ELSE IF MustWait THEN "sleeping" ELSE "executing"]
    /\ wake_at' = [t \in TimedTasks |->
                      IF t \in S /\ MustWait
                      THEN now + (min_execution_interval - (now - last_execution_at))
                      ELSE 0]
    /\ lastStart' = [t \in TimedTasks |->
                        IF t \in S /\ ~MustWait
                        THEN [task |-> t, at |-> now, last |-> last_execution_at]
                        ELSE NoStart]
    /\ UNCHANGED <<now, last_execution_at, last_execution_time, tpc, riskVars, exitVars,
                   cycleVars, monVars, gateVars, handlerVars, lockVars, mainVars, scanVars,
                   readVars, manageVars, sizeVars, syncVars, entryVars, pollVars, stopVars>>

\* line 143 returns and lines 146-152 call execute_trade; the time is not read
\* again
TimedWake(t) ==
    /\ xpc[t] = "sleeping"
    /\ wake_at[t] <= now
    /\ xpc' = [xpc EXCEPT ![t] = "executing"]
    /\ lastStart' = [lastStart EXCEPT ![t] =
                        [task |-> t, at |-> now, last |-> last_execution_at]]
    /\ UNCHANGED <<now, last_execution_at, wake_at, execVars, riskVars, exitVars, cycleVars,
                   monVars, gateVars, handlerVars, lockVars, mainVars, scanVars, readVars,
                   manageVars, sizeVars, syncVars, entryVars, pollVars, stopVars>>

\* execute_trade reaches place_order: ib.placeOrder, then asyncio.sleep(1)
TimedPlaceOrder(t) ==
    /\ xpc[t] = "executing"
    /\ xpc' = [xpc EXCEPT ![t] = "placed"]
    /\ wake_at' = [wake_at EXCEPT ![t] = now + order_ack_delay]
    /\ UNCHANGED <<now, last_execution_at, lastStart, execVars, riskVars, exitVars, cycleVars,
                   monVars, gateVars, handlerVars, lockVars, mainVars, scanVars, readVars,
                   manageVars, sizeVars, syncVars, entryVars, pollVars, stopVars>>

\* execute_trade returns None before any order (risk check, qualification), or
\* the type has no module: lines 154 and 161 return False
TimedNoOrder(t) ==
    /\ xpc[t] = "executing"
    /\ xpc' = [xpc EXCEPT ![t] = "idle"]
    /\ exec_sem' = exec_sem + 1
    /\ UNCHANGED <<now, last_execution_at, wake_at, lastStart, last_execution_time, tpc,
                   riskVars, exitVars, cycleVars, monVars, gateVars, handlerVars, lockVars,
                   mainVars, scanVars, readVars, manageVars, sizeVars, syncVars, entryVars,
                   pollVars, stopVars>>

\* place_order's sleep is over and execute_trade returns: with an order id
\* lines 156-159 set _last_execution_time to the clock, without one line 161
\* returns False
TimedFinish(t, acknowledged) ==
    /\ xpc[t] = "placed"
    /\ wake_at[t] <= now
    /\ xpc' = [xpc EXCEPT ![t] = "idle"]
    /\ exec_sem' = exec_sem + 1
    /\ last_execution_at' = IF acknowledged THEN now ELSE last_execution_at
    /\ last_execution_time' = (acknowledged \/ last_execution_time)
    /\ UNCHANGED <<now, wake_at, lastStart, tpc, riskVars, exitVars, cycleVars, monVars,
                   gateVars, handlerVars, lockVars, mainVars, scanVars, readVars, manageVars,
                   sizeVars, syncVars, entryVars, pollVars, stopVars>>

\* a second passes; the event loop runs the tasks whose timers are due before
\* it waits again
Tick ==
    /\ now < MaxTime
    /\ \A t \in TimedTasks : ~TimerDue(t)
    /\ now' = now + 1
    /\ UNCHANGED <<last_execution_at, xpc, wake_at, lastStart, execVars, riskVars, exitVars,
                   cycleVars, monVars, gateVars, handlerVars, lockVars, mainVars, scanVars,
                   readVars, manageVars, sizeVars, syncVars, entryVars, pollVars, stopVars>>

\* ------------------------- _manage_existing_positions and _close_position
\* a broker position as position management sees it: the option right that
\* lines 186-191 sort it by, contract.secType, where its value has moved, and
\* position.unrealizedPNL (0: none, or the object has no such attribute)
ManagedPositions ==
    [right : {"C", "P", ""}, secType : {"OPT", "BAG"},
     move : {"loss", "flat", "profit"}, unrealizedPNL : {-300, 0, 200}]

\* lines 183-191: the strategy a position is given to
StrategyFor(position) ==
    CASE position.right = "C" -> "bull"
      [] position.right = "P" -> "bear"
      [] OTHER -> "volatile"

\* manage_positions of the strategy: the reason of the close action it returns
\* for the position ("none": no action).  The bear and volatile modules skip
\* what is not a combo
ManageReason(strategy, position) ==
    IF strategy = "bull"
    THEN CASE position.move = "profit" -> "take_profit_50pct"
           [] position.move = "loss" -> "stop_loss_30pct"
           [] OTHER -> "none"
    ELSE IF position.secType # "BAG" THEN "none"
         ELSE CASE position.move = "profit" -> "profit_target"
                [] position.move = "loss" -> "stop_loss"
                [] OTHER -> "none"

\* the reasons with which the strategies close a position at its stop loss
StopLossReasons == {"stop_loss", "stop_loss_30pct"}

\* _close_position, lines 249-256: whether update_daily_loss is called
RecordsLoss(reason, position, order_placed) ==
    /\ order_placed
    /\ reason = "stop_loss"
    /\ position.unrealizedPNL # 0
    /\ position.unrealizedPNL < 0

NoClose == [reason |-> "none"]
NoClosed == [reason |-> "none", strategy |-> "", unrealizedPNL |-> 0,
             order_placed |-> FALSE, recorded |-> FALSE]

\* lines 183-225: a position is sorted to its strategy, whose manage_positions
\* returns a close action for it or nothing
ManagePosition(position) ==
    /\ cpc[LoopCycle] = "manage"
    /\ mg_pending = NoClose
    /\ LET reason == ManageReason(StrategyFor(position), position)
       IN mg_pending' = IF reason = "none" THEN NoClose
                        ELSE [reason |-> reason, strategy |-> StrategyFor(position),
                              position |-> position]
    /\ UNCHANGED <<lastClose, riskVars, exitVars, execVars, cycleVars, monVars, gateVars,
                   handlerVars, lockVars, mainVars, scanVars, readVars, timedVars, sizeVars,
                   syncVars, entryVars, pollVars, stopVars>>

\* _close_position, lines 232-259: the closing order is placed; after a
\* stop_loss close with an order id and a negative unrealizedPNL the loss goes
\* to update_daily_loss (up to its line 132 here, update_daily_loss_check is
\* the rest of the call)
ClosePosition(order_placed) ==
    /\ cpc[LoopCycle] = "manage"
    /\ mg_pending # NoClose
    /\ udl_pc = "idle"
    /\ LET recorded == RecordsLoss(mg_pending.reason, mg_pending.position, order_placed)
       IN /\ lastClose' = [reason |-> mg_pending.reason,
                           strategy |-> mg_pending.strategy,
                           unrealizedPNL |-> mg_pending.position.unrealizedPNL,
                           order_placed |-> order_placed, recorded |-> recorded]
          /\ IF recorded
             THEN UdlAdd(Abs(mg_pending.position.unrealizedPNL))
             ELSE UNCHANGED <<daily_loss, trading_halted, current_date, today, udl_pc,
                              udl_amount, lastUpdate, trips>>
    /\ mg_pending' = NoClose
    /\ UNCHANGED <<portfolio_value, exitVars, execVars, cycleVars, monVars, gateVars,
                   handlerVars, lockVars, mainVars, scanVars, readVars, timedVars, sizeVars,
                   syncVars, entryVars, pollVars, stopVars>>

\* line 98 returns: every management task is done
ManagementDone ==
    /\ mg_pending = NoClose
    /\ udl_pc = "idle"
    /\ CycleManaged(LoopCycle)


\* ------------------------------------------------ _calculate_position_size
\* the spread metrics a sizing call is given: probability_profit in percent,
\* max_profit and max_loss in dollars; complete is FALSE when a key is missing
SizingMetrics ==
    [probability_profit : {0, 50, 65, 90, 100}, max_profit : {0, 100, 300},
     max_loss : {-100, 0, 10, 100, 200}, complete : BOOLEAN]
\* what get_available_capital() returns, in dollars
AvailableCapital == {0, 500, 1000, 10000}

\* int(n / d) of Python for d # 0: the quotient without its fraction
TruncDiv(n, d) ==
    IF (n >= 0) = (d > 0) THEN Abs(n) \div Abs(d) ELSE 0 - (Abs(n) \div Abs(d))

\* lines 357-369 raise (KeyError for a missing key, ZeroDivisionError for a
\* max_profit or max_loss of 0)
SizingRaises(metrics) ==
    \/ ~metrics.complete
    \/ metrics.max_profit = 0
    \/ metrics.max_loss = 0

\* lines 357-363: kelly_fraction as <<numerator, denominator>>, after
\* max(0, min(kelly_fraction, 0.25))
KellyFraction(metrics) ==
    LET edge == metrics.probability_profit * metrics.max_profit
                    - (100 - metrics.probability_profit) * metrics.max_loss
        whole == 100 * metrics.max_profit
    IN IF edge <= 0 THEN <<0, 1>>
       ELSE IF 100 * edge >= kelly_cap_pct * whole THEN <<kelly_cap_pct, 100>>
       ELSE <<edge, whole>>

\* line 366: int(max_risk / max_loss) with max_risk = capital * max_spread_cost_pct
ContractsByRisk(capital, metrics) ==
    TruncDiv(capital * max_spread_cost_pct, 100 * metrics.max_loss)

\* line 369: int((available_capital * kelly_fraction) / max_loss)
ContractsByKelly(capital, metrics) ==
    TruncDiv(capital * KellyFraction(metrics)[1],
             KellyFraction(metrics)[2] * metrics.max_loss)

Min3(a, b, c) ==
    LET ab == IF a < b THEN a ELSE b IN IF ab < c THEN ab ELSE c

\* mutant: the result is not raised to 1
calculate_position_size_unfloored(capital, metrics) ==
    IF SizingRaises(metrics) THEN 1
    ELSE Min3(ContractsByRisk(capital, metrics), ContractsByKelly(capital, metrics),
              max_contracts)
\* _calculate_position_size of the bull and of the bear module (the same code)
calculate_position_size(capital, metrics) ==
    IF SizingRaises(metrics) THEN 1
    ELSE LET position_size == Min3(ContractsByRisk(capital, metrics),
                                   ContractsByKelly(capital, metrics), max_contracts)
         IN IF position_size < 1 THEN 1 ELSE position_size

NoSize == [called |-> FALSE]

\* a call of _calculate_position_size
SizeCall(capital, metrics) ==
    /\ lastSize' = [called |-> TRUE, capital |-> capital, metrics |-> metrics,
                    raised |-> SizingRaises(metrics),
                    size |-> calculate_position_size(capital, metrics)]
    /\ UNCHANGED <<riskVars, exitVars, execVars, cycleVars, monVars, gateVars, handlerVars,
                   lockVars, mainVars, scanVars, readVars, timedVars, manageVars, syncVars,
                   entryVars, pollVars, stopVars>>

\* ------------------------------------------------ SyncExecutionEngine2026
NoCycleStart == [started |-> FALSE]

\* how long a trading cycle or a sleep can take, in seconds (a sleep returns
\* no earlier than asked, and the loop is followed in steps of 30 seconds)
Durations == {30, 270, 300}

\* mutant: the interval is not checked
should_analyze_any_time ==
    /\ trading_enabled
    /\ market_open
\* _should_analyze; `if self.last_analysis_time:` is false for None and for 0
should_analyze ==
    /\ trading_enabled
    /\ market_open
    /\ (last_analysis_time > 0 => sync_clock - last_analysis_time >= analysis_interval)

\* start(): does nothing when running, else starts the _run thread
SyncStart ==
    /\ ~sync_running
    /\ sync_pc = "idle"
    /\ sync_running' = TRUE
    /\ sync_pc' = "check"
    /\ UNCHANGED <<trading_enabled, last_analysis_time, sync_clock, market_open, forced,
                   lastCycle, cycleStart>>
    /\ UNCHANGED <<riskVars, exitVars, execVars, cycleVars, monVars, gateVars, handlerVars,
                   lockVars, mainVars, scanVars, readVars, timedVars, manageVars, sizeVars,
                   entryVars, pollVars, stopVars>>

\* stop(): the loop ends at its next `while self.running`
SyncStop ==
    /\ sync_running
    /\ sync_running' = FALSE
    /\ UNCHANGED <<trading_enabled, last_analysis_time, sync_pc, sync_clock, market_open,
                   forced, lastCycle, cycleStart>>
    /\ UNCHANGED <<riskVars, exitVars, execVars, cycleVars, monVars, gateVars, handlerVars,
                   lockVars, mainVars, scanVars, readVars, timedVars, manageVars, sizeVars,
                   entryVars, pollVars, stopVars>>

\* _run, the head of an iteration: `while self.running`, _should_analyze() and,
\* when that is true, the start of _execute_trading_cycle, which sets
\* last_analysis_time to the clock before its first step
SyncIteration ==
    /\ sync_pc = "check"
    /\ IF ~sync_running
       THEN /\ sync_pc' = "exited"
            /\ UNCHANGED <<last_analysis_time, forced, cycleStart>>
       ELSE IF should_analyze
       THEN /\ sync_pc' = "cycle"
            /\ last_analysis_time' = sync_clock
            /\ forced' = FALSE
            /\ cycleStart' = [started |-> TRUE, at |-> sync_clock,
                              enabled |-> trading_enabled, open |-> market_open,
                              previous |-> IF cycleStart.started THEN cycleStart.at ELSE -1,
                              forced |-> forced, after |-> lastCycle]
       ELSE /\ sync_pc' = "sleep"
            /\ UNCHANGED <<last_analysis_time, forced, cycleStart>>
    /\ UNCHANGED <<sync_running, trading_enabled, sync_clock, market_open, lastCycle>>
    /\ UNCHANGED <<riskVars, exitVars, execVars, cycleVars, monVars, gateVars, handlerVars,
                   lockVars, mainVars, scanVars, readVars, timedVars, manageVars, sizeVars,
                   entryVars, pollVars, stopVars>>

\* the rest of _execute_trading_cycle, taking `duration` seconds: it completes,
\* or a step raises and the except clause returns, or the except clause's
\* add_error raises too and _run's except clause sleeps 30 seconds
SyncCycleDone(duration, outcome) ==
    /\ sync_pc = "cycle"
    /\ sync_clock + duration <= MaxSyncTime
    /\ sync_clock' = sync_clock + duration
    /\ lastCycle' = IF outcome = "completed" THEN "completed" ELSE "raised"
    /\ sync_pc' = IF outcome = "handler_raised" THEN "error_sleep" ELSE "sleep"
    /\ UNCHANGED <<sync_running, trading_enabled, last_analysis_time, market_open, forced,
                   cycleStart>>
    /\ UNCHANGED <<riskVars, exitVars, execVars, cycleVars, monVars, gateVars, handlerVars,
                   lockVars, mainVars, scanVars, readVars, timedVars, manageVars, sizeVars,
                   entryVars, pollVars, stopVars>>

\* time.sleep(1) or time.sleep(30) returns after `duration` seconds
SyncSleepDone(duration) ==
    /\ \/ sync_pc = "sleep" /\ duration >= loop_sleep
       \/ sync_pc = "error_sleep" /\ duration >= error_sleep
    /\ sync_clock + duration <= MaxSyncTime
    /\ sync_clock' = sync_clock + duration
    /\ sync_pc' = "check"
    /\ UNCHANGED <<sync_running, trading_enabled, last_analysis_time, market_open, forced,
                   lastCycle, cycleStart>>
    /\ UNCHANGED <<riskVars, exitVars, execVars, cycleVars, monVars, gateVars, handlerVars,
                   lockVars, mainVars, scanVars, readVars, timedVars, manageVars, sizeVars,
                   entryVars, pollVars, stopVars>>

\* enable_trading() and disable_trading()
SetTradingEnabled(enabled) ==
    /\ trading_enabled # enabled
    /\ trading_enabled' = enabled
    /\ UNCHANGED <<sync_running, last_analysis_time, sync_pc, sync_clock, market_open,
                   forced, lastCycle, cycleStart>>
    /\ UNCHANGED <<riskVars, exitVars, execVars, cycleVars, monVars, gateVars, handlerVars,
                   lockVars, mainVars, scanVars, readVars, timedVars, manageVars, sizeVars,
                   entryVars, pollVars, stopVars>>

\* force_analysis()
ForceAnalysis ==
    /\ ~forced
    /\ last_analysis_time' = 0
    /\ forced' = TRUE
    /\ UNCHANGED <<sync_running, trading_enabled, sync_pc, sync_clock, market_open,
                   lastCycle, cycleStart>>
    /\ UNCHANGED <<riskVars, exitVars, execVars, cycleVars, monVars, gateVars, handlerVars,
                   lockVars, mainVars, scanVars, readVars, timedVars, manageVars, sizeVars,
                   entryVars, pollVars, stopVars>>

\* the market opens or closes (_is_trading_hours changes its answer)
MarketBell ==
    /\ market_open' = ~market_open
    /\ UNCHANGED <<sync_running, trading_enabled, last_analysis_time, sync_pc, sync_clock,
                   forced, lastCycle, cycleStart>>
    /\ UNCHANGED <<riskVars, exitVars, execVars, cycleVars, monVars, gateVars, handlerVars,
                   lockVars, mainVars, scanVars, readVars, timedVars, manageVars, sizeVars,
                   entryVars, pollVars, stopVars>>

\* ------------------------------------------------------------------- Init
\* the portfolio value the risk manager is constructed with
InitialPortfolio == 10000

Init ==
    /\ portfolio_value = InitialPortfolio
    /\ daily_loss = 0
    /\ trading_halted = FALSE
    /\ current_date = 0
    /\ today = 0
    /\ trailing_stops = << >>
    /\ highest_profits = << >>
    /\ udl_pc = "idle"
    /\ udl_amount = 0
    /\ lastExit = NoExit
    /\ lastUpdate = NoUpdate
    /\ trips = 0
    /\ exec_sem = execution_permits
    /\ last_execution_time = FALSE
    /\ tpc = [t \in Tasks |-> "idle"]
    /\ running = FALSE
    /\ cycle_sem = 1
    /\ cpc = [c \in Cycles |-> "idle"]
    /\ positions = {}
    /\ position_entry_prices = << >>
    /\ mpc = "sleep"
    /\ mon_todo = {}
    /\ mon_pos = ""
    /\ mon_reason = ""
    /\ open_symbols = {}
    /\ lastFilter = NoFilter
    /\ lastExposure = NoExposure
    /\ h_started = FALSE
    /\ shutdown_event = FALSE
    /\ request_queue = << >>
    /\ threads_spawned = 0
    /\ hpc = [h \in HandlerThreads |-> "unborn"]
    /\ hcur = [h \in HandlerThreads |-> 0]
    /\ caller = [r \in Requests |-> "idle"]
    /\ future = [r \in Requests |-> "none"]
    /\ invoked = [r \in Requests |-> 0]
    /\ resolves = [r \in Requests |-> 0]
    /\ submitted = << >>
    /\ invocations = << >>
    /\ hwait = [h \in HandlerThreads |-> 0]
    /\ late_invoked = {}
    /\ wrapper_lock = "free"
    /\ risk_lock = "free"
    /\ lpc = [t \in Threads |-> "idle"]
    /\ lcall = [t \in Threads |-> ""]
    /\ lret = [t \in Threads |-> NoReturn]
    /\ bot_running = FALSE
    /\ trading_cycle_errors = 0
    /\ spc = "init"
    /\ scans = [s \in Strategies |-> "off"]
    /\ scan_result = [s \in Strategies |-> << >>]
    /\ all_opportunities = << >>
    /\ handed = << >>
    /\ lastMetrics = NoMetrics
    /\ now = 0
    /\ last_execution_at = -1
    /\ xpc = [t \in TimedTasks |-> "idle"]
    /\ wake_at = [t \in TimedTasks |-> 0]
    /\ lastStart = [t \in TimedTasks |-> NoStart]
    /\ mg_pending = NoClose
    /\ lastClose = NoClosed
    /\ lastSize = NoSize
    /\ sync_running = FALSE
    /\ trading_enabled = TRUE
    /\ last_analysis_time = -1
    /\ sync_pc = "idle"
    /\ sync_clock = 1
    /\ market_open = FALSE
    /\ forced = FALSE
    /\ lastCycle = "none"
    /\ cycleStart = NoCycleStart
    /\ entered_waiting = [c \in Cycles |-> FALSE]
    /\ poll_skipped = FALSE
    /\ failed_close = ""
    /\ queued_after_stop = {}

\* ------------------------------------------------- exit-machine specification
NextExit ==
    \/ \E call \in ExitCalls :
           check_exit_conditions(call[1], call[2], call[3], call[4])
    \/ \E t \in TradeIds : cleanup_trade(t)

SpecExit == Init /\ [][NextExit]_vars

\* ---------------------------------------------- circuit-breaker specification
NextRisk ==
    \/ \E amt \in LossAmounts : update_daily_loss_add(amt)
    \/ update_daily_loss_check
    \/ \E v \in PortfolioValues : update_portfolio_value(v)
    \/ Midnight

SpecRisk == Init /\ [][NextRisk]_vars

\* ------------------------------------- the circuit breaker and a reader thread
NextReaders ==
    \/ \E amt \in LossAmounts : update_daily_loss_add(amt)
    \/ update_daily_loss_check
    \/ \E v \in PortfolioValues : update_portfolio_value(v)
    \/ Midnight
    \/ get_risk_metrics

SpecReaders == Init /\ [][NextReaders]_vars

\* ---------------------------------------------------- execution specification
\* the daily losses the position monitor records while executions run
ExecLossAmounts == {400, 1000}
NextExec ==
    \/ \E t \in Tasks : ExecInvoke(t)
    \/ \E t \in Tasks : ExecAcquire(t)
    \/ \E t \in Tasks : ExecUnknown(t)
    \/ \E t \in Tasks : ExecRiskCheck(t)
    \/ \E t \in Tasks : ExecPlaceOrder(t)
    \/ \E t \in Tasks : ExecNoOrder(t)
    \/ \E t \in Tasks : ExecSuccess(t)
    \/ \E amt \in ExecLossAmounts : update_daily_loss_add(amt)
    \/ update_daily_loss_check
    \/ Midnight

SpecExec == Init /\ [][NextExec]_vars

\* -------------------------------------------------- trading-cycle specification
\* the daily loss recorded while cycles run
CycleLossAmounts == {1000}
NextCycle ==
    \/ start
    \/ stop
    \/ \E c \in Cycles : CycleInvoke(c)
    \/ \E c \in Cycles : CycleAcquire(c)
    \/ \E c \in Cycles, metrics_awaitable \in BOOLEAN : CycleHaltCheck(c, metrics_awaitable)
    \/ \E c \in Cycles : CycleGathered(c)
    \/ \E c \in Cycles : CycleUpdated(c)
    \/ \E c \in Cycles, candidates \in BOOLEAN : CycleScreened(c, candidates)
    \/ \E c \in Cycles, found \in BOOLEAN : CycleScanned(c, found)
    \/ \E c \in Cycles : CycleExecuted(c)
    \/ \E c \in Cycles : CycleManaged(c)
    \/ \E c \in Cycles : CycleRaise(c)
    \/ \E amt \in CycleLossAmounts : update_daily_loss_add(amt)
    \/ update_daily_loss_check
    \/ Midnight

SpecCycle == Init /\ [][NextCycle]_vars

\* an invocation inside the cycle body goes on: every awaited call returns or
\* raises
CycleProgress(c) ==
    \/ \E metrics_awaitable \in BOOLEAN : CycleHaltCheck(c, metrics_awaitable)
    \/ CycleGathered(c)
    \/ CycleUpdated(c)
    \/ \E candidates \in BOOLEAN : CycleScreened(c, candidates)
    \/ \E found \in BOOLEAN : CycleScanned(c, found)
    \/ CycleExecuted(c)
    \/ CycleManaged(c)
    \/ CycleRaise(c)

\* release() wakes the waiting acquire(), which the event loop then runs
SpecCycleLive ==
    /\ SpecCycle
    /\ \A c \in Cycles : WF_vars(CycleProgress(c)) /\ SF_vars(CycleAcquire(c))

\* ------------------------------------------------ risk-filter specifications
\* the opportunities of the orchestrator's executions
FilterTasks == {1, 2}
NextFilter ==
    \/ \E t \in FilterTasks : FilterOpportunity(t)
    \/ \E t \in FilterTasks : ExecInvoke(t)
    \/ \E t \in FilterTasks : ExecRiskCheck(t)
    \/ \E t \in FilterTasks : ExecPlaceOrder(t)
    \/ \E t \in FilterTasks : ExecNoOrder(t)
    \/ \E t \in FilterTasks : OrderFilled(t)
    \/ \E t \in FilterTasks : ExecSuccess(t)
    \/ \E amt \in LossAmounts : update_daily_loss_add(amt)
    \/ update_daily_loss_check
    \/ \E v \in PortfolioValues : update_portfolio_value(v)

SpecFilter == Init /\ [][NextFilter]_vars

NextExposure ==
    \/ \E o \in ExposureInputs : ExposureCall(o)
    \/ \E v \in PortfolioValues : update_portfolio_value(v)

SpecExposure == Init /\ [][NextExposure]_vars

\* ------------------------------------------------ async-handler specifications
NextHandler ==
    \/ AsyncHandler_start
    \/ AsyncHandler_stop
    \/ \E r \in Requests : run_async(r)
    \/ \E h \in HandlerThreads : HandlerPoll(h)
    \/ \E h \in HandlerThreads, outcome \in {"result", "exception"} : HandlerFinish(h, outcome)
    \/ \E r \in Requests : CallerReturn(r)
    \/ \E r \in Requests : CallerTimeout(r)

SpecHandler == Init /\ [][NextHandler]_vars

\* every caller's blocking wait ends when its Future is resolved or its timeout
\* expires; nothing is assumed about the handler thread
SpecHandlerLive ==
    /\ Init /\ [][NextHandler]_vars
    /\ \A r \in Requests : WF_vars(CallerReturn(r) \/ CallerTimeout(r))

\* the handler with requests that themselves call run_async
NextReentrant ==
    \/ AsyncHandler_start
    \/ AsyncHandler_stop
    \/ \E r \in Requests : run_async(r)
    \/ \E h \in HandlerThreads : HandlerPoll(h)
    \/ \E h \in HandlerThreads, outcome \in {"result", "exception"} : HandlerFinish(h, outcome)
    \/ \E r \in Requests : CallerReturn(r)
    \/ \E r \in Requests : CallerTimeout(r)
    \/ \E h \in HandlerThreads, r \in Requests : HandlerNestedCall(h, r)
    \/ \E h \in HandlerThreads : HandlerNestedEnd(h)

SpecReentrant == Init /\ [][NextReentrant]_vars

\* ------------------------------------------------------- lock specification
NextLocks ==
    \/ \E t \in Threads, method \in WrapperMethods : WrapperCall(t, method)
    \/ \E t \in Threads, outcome \in ClientOutcomes : WrapperReturn(t, outcome)
    \/ \E t \in Threads : \E name \in DelegatedCallsOf(t) : DelegatedCall(t, name)
    \/ \E t \in Threads, outcome \in ClientOutcomes : DelegatedReturn(t, outcome)
    \/ \E t \in Threads : \E section \in RiskSectionsOf(t) : RiskEnter(t, section)
    \/ \E t \in Threads : RiskLeave(t)

SpecLocks == Init /\ [][NextLocks]_vars

\* --------------------------------------------------- main-loop specification
NextMain ==
    \/ start
    \/ start_trading
    \/ LoopTest
    \/ \E outcome \in HealthOutcomes : HealthCheck(outcome)
    \/ TickRunCycle
    \/ \E metrics_awaitable \in BOOLEAN : CycleHaltCheck(LoopCycle, metrics_awaitable)
    \/ CycleGathered(LoopCycle)
    \/ CycleUpdated(LoopCycle)
    \/ \E candidates \in BOOLEAN : CycleScreened(LoopCycle, candidates)
    \/ \E found \in BOOLEAN : CycleScanned(LoopCycle, found)
    \/ CycleExecuted(LoopCycle)
    \/ CycleManaged(LoopCycle)
    \/ CycleRaise(LoopCycle)
    \/ TickCycleReturned
    \/ TickUpdateMonitor
    \/ TickWake
    \/ shutdown
    \/ \E amt \in CycleLossAmounts : update_daily_loss_add(amt)
    \/ update_daily_loss_check

SpecMain == Init /\ [][NextMain]_vars

\* ------------------------------------------------ cycle-detail specification
\* one trading cycle after another with its scans and executions, while the
\* monitor thread records losses and portfolio values
NextDetail ==
    \/ start
    \/ CycleInvoke(LoopCycle)
    \/ \E metrics_awaitable \in BOOLEAN : CycleHaltCheck(LoopCycle, metrics_awaitable)
    \/ CycleGathered(LoopCycle)
    \/ CycleUpdated(LoopCycle)
    \/ CycleRaise(LoopCycle)
    \/ \E candidates \in BOOLEAN, sentiment \in SUBSET Strategies :
          ScanStart(candidates, sentiment)
    \/ \E s \in Strategies : \E result \in ScanResults(s) : ScanFinish(s, FALSE, result)
    \/ \E s \in Strategies : ScanFinish(s, TRUE, << >>)
    \/ ScansGathered
    \/ \E t \in Tasks : ExecUnknown(t)
    \/ \E t \in Tasks : ExecRiskCheck(t)
    \/ \E t \in Tasks : ExecPlaceOrder(t)
    \/ \E t \in Tasks : ExecNoOrder(t)
    \/ \E t \in Tasks : ExecSuccess(t)
    \/ ExecutionsGathered
    \/ CycleManaged(LoopCycle)
    \/ \E amt \in CycleLossAmounts : update_daily_loss_add(amt)
    \/ update_daily_loss_check
    \/ \E v \in PortfolioValues : update_portfolio_value(v)

SpecDetail == Init /\ [][NextDetail]_vars

\* ------------------------------------------- the executions of a cycle in time
NextTimed ==
    \/ \E S \in SUBSET TimedTasks : ExecutionsLaunched(S)
    \/ \E t \in TimedTasks : TimedWake(t)
    \/ \E t \in TimedTasks : TimedPlaceOrder(t)
    \/ \E t \in TimedTasks : TimedNoOrder(t)
    \/ \E t \in TimedTasks, acknowledged \in BOOLEAN : TimedFinish(t, acknowledged)
    \/ Tick

SpecTimed == Init /\ [][NextTimed]_vars

\* ----------------------------------- position management of the orchestrator
NextManage ==
    \/ start
    \/ CycleInvoke(LoopCycle)
    \/ \E metrics_awaitable \in BOOLEAN : CycleHaltCheck(LoopCycle, metrics_awaitable)
    \/ CycleGathered(LoopCycle)
    \/ CycleUpdated(LoopCycle)
    \/ \E candidates \in BOOLEAN : CycleScreened(LoopCycle, candidates)
    \/ CycleScanned(LoopCycle, FALSE)
    \/ \E position \in ManagedPositions : ManagePosition(position)
    \/ \E order_placed \in BOOLEAN : ClosePosition(order_placed)
    \/ update_daily_loss_check
    \/ ManagementDone

SpecManage == Init /\ [][NextManage]_vars

\* ------------------------------------------------- position sizing of a spread
NextSizing ==
    \E capital \in AvailableCapital, metrics \in SizingMetrics : SizeCall(capital, metrics)

SpecSizing == Init /\ [][NextSizing]_vars

\* ------------------------------------------ the synchronous engine's _run loop
NextSync ==
    \/ SyncStart
    \/ SyncStop
    \/ SyncIteration
    \/ \E duration \in Durations, outcome \in {"completed", "raised", "handler_raised"} :
           SyncCycleDone(duration, outcome)
    \/ \E duration \in Durations : SyncSleepDone(duration)
    \/ \E enabled \in BOOLEAN : SetTradingEnabled(enabled)
    \/ ForceAnalysis
    \/ MarketBell

SpecSync == Init /\ [][NextSync]_vars

\* ---------------------------------------------- position-closing specification
\* the orchestrator's loop runs its cycles one after another, as one invocation,
\* which never has to wait for the cycle semaphore
MainLoop == {1}
NextPositions ==
    \/ start
    \/ \E c \in MainLoop : CycleInvoke(c)
    \/ \E c \in MainLoop, metrics_awaitable \in BOOLEAN : CycleHaltCheck(c, metrics_awaitable)
    \/ \E c \in MainLoop : CycleGathered(c)
    \/ \E c \in MainLoop : CycleUpdated(c)
    \/ \E c \in MainLoop, candidates \in BOOLEAN : CycleScreened(c, candidates)
    \/ \E c \in MainLoop, found \in BOOLEAN : CycleScanned(c, found)
    \/ \E c \in MainLoop : CycleExecuted(c)
    \/ \E c \in MainLoop : CycleManaged(c)
    \/ \E c \in MainLoop : CycleRaise(c)
    \/ \E p \in TradeIds : PositionOpened(p)
    \/ \E a \in AccountValues : MonitorPoll(a)
    \/ \E p \in TradeIds, v \in MonitorPrices : MonitorCheckPosition(p, v)
    \/ \E placed \in BOOLEAN, loss \in CloseLosses : MonitorClosePosition(placed, loss)
    \/ MonitorCleanup
    \/ MonitorSleep
    \/ \E p \in TradeIds, r \in CloseReasons, placed \in BOOLEAN, loss \in CloseLosses :
          EngineClosePosition(p, r, placed, loss)
    \/ update_daily_loss_check
    \/ Midnight

SpecPositions == Init /\ [][NextPositions]_vars

\* ------------------------------------------------ the monitor thread by itself
NextMonitor ==
    \/ \E p \in TradeIds : PositionOpened(p)
    \/ \E a \in AccountValues : MonitorPoll(a)
    \/ \E p \in TradeIds, v \in MonitorPrices : MonitorCheckPosition(p, v)
    \/ \E placed \in BOOLEAN, loss \in CloseLosses : MonitorClosePosition(placed, loss)
    \/ MonitorCleanup
    \/ MonitorSleep
    \/ update_daily_loss_check
    \/ Midnight

SpecMonitor == Init /\ [][NextMonitor]_vars

\* ------------------------------------------------- fair scheduling of the loops
\* a step of the monitor thread
MonitorStep ==
    \/ \E a \in AccountValues : MonitorPoll(a)
    \/ \E p \in TradeIds, v \in MonitorPrices : MonitorCheckPosition(p, v)
    \/ \E placed \in BOOLEAN, loss \in CloseLosses : MonitorClosePosition(placed, loss)
    \/ MonitorCleanup
    \/ MonitorSleep

\* a step of the orchestrator's loop
CycleStep ==
    \/ \E c \in MainLoop : CycleInvoke(c)
    \/ \E c \in MainLoop, metrics_awaitable \in BOOLEAN : CycleHaltCheck(c, metrics_awaitable)
    \/ \E c \in MainLoop : CycleGathered(c)
    \/ \E c \in MainLoop : CycleUpdated(c)
    \/ \E c \in MainLoop, candidates \in BOOLEAN : CycleScreened(c, candidates)
    \/ \E c \in MainLoop, found \in BOOLEAN : CycleScanned(c, found)
    \/ \E c \in MainLoop : CycleExecuted(c)
    \/ \E c \in MainLoop : CycleManaged(c)

\* both loops keep running, the engine is started, and a thread inside
\* update_daily_loss finishes the call
SpecLive ==
    /\ Init /\ [][NextPositions]_vars
    /\ WF_vars(MonitorStep)
    /\ WF_vars(CycleStep)
    /\ WF_vars(start)
    /\ WF_vars(update_daily_loss_check)

\* ======================================================================
\* Properties
\* ======================================================================

\* C4: for a fixed stored date daily_loss never decreases; a step that changes
\* the stored date is the reset of an update_daily_loss call that observed a new
\* date: it leaves daily_loss equal to that call's amount (0 plus the amount) and
\* the stored date equal to the date read, so no later call resets for that date;
\* and every call that observes a date other than the stored one resets.
DailyLossMonotone ==
    [][/\ (current_date' = current_date => daily_loss' >= daily_loss)
       /\ (current_date' # current_date =>
               /\ daily_loss' = udl_amount'
               /\ current_date' = today'
               /\ udl_pc = "idle" /\ udl_pc' = "added")
       /\ (udl_pc = "idle" /\ udl_pc' = "added" /\ today # current_date =>
               current_date' # current_date)]_vars

\* C4 witness: after a date change has been observed (stored date > 0), a call on
\* the same date has added its amount to a positive daily_loss.
DailyLossAccumulatesAfterReset ==
    /\ current_date > 0
    /\ udl_pc = "idle"
    /\ lastUpdate.ret # "none"
    /\ lastUpdate.callDay = lastUpdate.prevDate
    /\ lastUpdate.prevLoss > 0
    /\ daily_loss = lastUpdate.prevLoss + lastUpdate.amount

\* C5: while trading_halted is true both reads of the halt state return true
\* (the flag, and is_trading_halted()), and a step that leaves the stored date
\* unchanged leaves both true: only the date-change reset clears the halt.
HaltPersistence ==
    /\ [](trading_halted => is_trading_halted)
    /\ [][trading_halted /\ current_date' = current_date =>
              trading_halted' /\ is_trading_halted']_vars

\* C5 witness: a call made while halted, on the stored date, has completed and
\* the halt is still in force.
HaltedCallLeavesHalt ==
    /\ udl_pc = "idle"
    /\ lastUpdate.ret # "none"
    /\ lastUpdate.prevHalted
    /\ lastUpdate.callDay = lastUpdate.prevDate
    /\ trading_halted
    /\ is_trading_halted

\* C6: while a trade keeps its trailing state (no cleanup_trade in between), its
\* stored stop price never decreases.
StopNeverDecreases ==
    [][\A t \in TradeIds :
          (t \in DOMAIN trailing_stops /\ t \in DOMAIN trailing_stops') =>
              trailing_stops'[t] >= trailing_stops[t]]_vars

\* C6 witness: a call in trailing range at a price whose own stop would be lower
\* than the stored one has left the stored stop in place.
StopKeptOnLowerPrice ==
    /\ lastExit.had
    /\ lastExit.reason \in {"trailing_active", "trailing_stop"}
    /\ StopFor(lastExit.price) < lastExit.prevStop
    /\ trailing_stops[lastExit.trade] = lastExit.prevStop

\* C8: when an update_daily_loss call has returned: daily_loss is the amount
\* added to the previous daily_loss, or to 0 when the call observed a date
\* change; the call returned True exactly when that addition took daily_loss
\* from below the limit to at least the limit; trading_halted is true exactly
\* when daily_loss >= daily_loss_limit; and at most one call has returned True
\* since the stored date last changed.
BreakerTripsOnce ==
    (udl_pc = "idle" /\ lastUpdate.ret # "none") =>
        LET changed == lastUpdate.callDay # lastUpdate.prevDate
            base == IF changed THEN 0 ELSE lastUpdate.prevLoss
        IN /\ daily_loss = base + lastUpdate.amount
           /\ (lastUpdate.ret = "True") =
                  (base < daily_loss_limit /\ daily_loss >= daily_loss_limit)
           /\ trading_halted = (daily_loss >= daily_loss_limit)
           /\ trips <= 1

\* C8 witness (Scenario D): 400, 400 and then 300 have been recorded; the third
\* call returned True; a fourth call on the same date returned False with the
\* halt still set.
FourthCallAfterTrip ==
    /\ udl_pc = "idle"
    /\ lastUpdate.prevLoss = 1100
    /\ lastUpdate.prevHalted
    /\ lastUpdate.callDay = lastUpdate.prevDate
    /\ lastUpdate.ret = "False"
    /\ trading_halted
    /\ trips = 1

\* the stop-loss thresholds the claim states, in percent
ClaimedStopLoss(trade_type) ==
    IF trade_type = "bear" THEN 15 ELSE IF trade_type = "volatile" THEN 30 ELSE 20

\* C9: for a trade without trailing state and entry_price > 0 the result is the
\* first match of: profit >= 80% -> (False, trailing_active); profit >= 30% ->
\* (True, take_profit); loss >= the trade type's threshold -> (True, stop_loss);
\* otherwise (False, hold).
ExitPriority ==
    (lastExit.reason \notin {"none", "cleanup"} /\ ~lastExit.had /\ lastExit.entry > 0) =>
        LET e == lastExit.entry
            c == lastExit.price
            claimed ==
                IF (c - e) * 100 >= 80 * e
                THEN [close |-> FALSE, reason |-> "trailing_active"]
                ELSE IF (c - e) * 100 >= 30 * e
                THEN [close |-> TRUE, reason |-> "take_profit"]
                ELSE IF (e - c) * 100 >= ClaimedStopLoss(lastExit.type) * e
                THEN [close |-> TRUE, reason |-> "stop_loss"]
                ELSE [close |-> FALSE, reason |-> "hold"]
        IN lastExit.close = claimed.close /\ lastExit.reason = claimed.reason

\* C9 witness: bull, entry 100, price 79 closes with stop_loss.
BullStopLossAt79 ==
    /\ ~lastExit.had
    /\ lastExit.entry = 100
    /\ lastExit.price = 79
    /\ lastExit.type = "bull"
    /\ lastExit.close
    /\ lastExit.reason = "stop_loss"

\* C10: a call in trailing range (profit >= 80%) for a trade without trailing
\* state stores stop = 0.92 * price and peak = profit and returns
\* (False, trailing_active); for a trade with trailing state it raises the stop
\* to 0.92 * price exactly when the profit exceeds the stored peak and that stop
\* is higher, and returns (True, trailing_stop) exactly when the price is at or
\* below the resulting stop, (False, trailing_active) otherwise.
TrailingStopRule ==
    LET e == lastExit.entry
        c == lastExit.price
        t == lastExit.trade
    IN (lastExit.reason \notin {"none", "cleanup"} /\ e > 0 /\ (c - e) * 100 >= 80 * e) =>
        /\ t \in DOMAIN trailing_stops
        /\ IF ~lastExit.had
           THEN /\ trailing_stops[t] = 92 * c
                /\ highest_profits[t] = <<c - e, e>>
                /\ ~lastExit.close
                /\ lastExit.reason = "trailing_active"
           ELSE LET raise == /\ (c - e) * lastExit.prevPeak[2] > lastExit.prevPeak[1] * e
                             /\ 92 * c > lastExit.prevStop
                IN /\ trailing_stops[t] = IF raise THEN 92 * c ELSE lastExit.prevStop
                   /\ lastExit.close = (100 * c <= trailing_stops[t])
                   /\ lastExit.reason =
                          IF lastExit.close THEN "trailing_stop" ELSE "trailing_active"

\* C10 witness (Scenario C): with the stop at 184.00 a call at 183 closes with
\* trailing_stop.
TrailingStopAt183 ==
    /\ lastExit.had
    /\ lastExit.entry = 100
    /\ lastExit.price = 183
    /\ lastExit.prevStop = 18400
    /\ lastExit.close
    /\ lastExit.reason = "trailing_stop"

\* C1: at most one run_trading_cycle invocation is inside the cycle body, and an
\* invocation enters the body only in a step before which no other invocation
\* is inside it.
CycleMutualExclusion ==
    /\ [](Cardinality({c \in Cycles : InBody(c)}) <= 1)
    /\ [][\A c \in Cycles :
             (~InBody(c) /\ InBody(c)') => \A d \in Cycles \ {c} : ~InBody(d)]_vars

\* C1 witness: one invocation is in the execution phase of its cycle while
\* another waits for the cycle semaphore.
CycleWaitsBehindExecution ==
    \E c, d \in Cycles : cpc[c] = "execute" /\ cpc[d] = "waiting"

\* C2: at most 3 _execute_single_opportunity invocations are inside the
\* execution section, and the free permits plus the invocations inside it always
\* number 3 (every exit path gives its permit back).
ExecutionBound ==
    /\ Cardinality({t \in Tasks : InSection(t)}) <= 3
    /\ exec_sem + Cardinality({t \in Tasks : InSection(t)}) = 3

\* C2 witness: three invocations are inside the section and a fourth waits.
FourthExecutionWaits ==
    /\ Cardinality({t \in Tasks : InSection(t)}) = 3
    /\ \E t \in Tasks : tpc[t] = "waiting"

\* the step in which invocation t's strategy hands its opening order to the broker
OrderPlacedBy(t) == tpc[t] = "qualifying" /\ tpc'[t] = "placed"

\* C3: no opening order is placed while daily_loss >= daily_loss_limit and the
\* date has not advanced past the stored date.
NoOrderOnceLimitReached ==
    [][\A t \in Tasks :
          OrderPlacedBy(t) =>
              ~(daily_loss >= daily_loss_limit /\ today = current_date)]_vars

\* C7: when an opening order is placed, position_size * debit * 100 is at most
\* calculate_max_trade_size() evaluated at that moment.
SizingBoundAtPlacement ==
    [][\A t \in Tasks :
          OrderPlacedBy(t) => TradeCost(t) * 100 <= calculate_max_trade_size]_vars

\* the last call was made with the entry price the trade's peak was recorded with
SameEntry == lastExit.entry > 0 /\ lastExit.prevPeak[2] = lastExit.entry

\* C11: once a trade has trailing state, every close decision returned for it
\* has reason 'trailing_stop' (never 'take_profit' or 'stop_loss').
TrailingOwnsClose ==
    (lastExit.had /\ SameEntry /\ lastExit.close) => lastExit.reason = "trailing_stop"

\* C12: a call for a trade with trailing state whose current_price is at or
\* below the recorded stop price returns should_close = True.
ClosesAtOrBelowStop ==
    (lastExit.had /\ SameEntry /\ lastExit.price * 100 <= lastExit.prevStop)
        => lastExit.close

\* C13: a position that has been closed (and whose close the monitor is not in
\* the middle of handling) has no trailing-stop and no peak-profit entry in the
\* risk manager.
NoTrailingStateAfterClose ==
    \A p \in TradeIds :
        (p \notin positions /\ mon_pos # p /\ p \notin mon_todo) =>
            (p \notin DOMAIN trailing_stops /\ p \notin DOMAIN highest_profits)

\* C14: can_open_position(symbol) is False, so the filter rejects the
\* opportunity, whenever the symbol has a position opened by an earlier
\* execution that has returned.
DuplicateSymbolRejected == (lastFilter.held /\ ~lastFilter.in_flight) => ~lastFilter.ret

\* the trade risk as claimed: max_loss (debit when absent) x position_size (1
\* when absent) x 100, for an opportunity whose computation succeeds
ClaimedRiskInput(o) ==
    [max_loss |-> IF o.max_loss[1] \in {"absent", "none"}
                  THEN (IF o.debit[1] = "absent" THEN Num(0) ELSE o.debit)
                  ELSE o.max_loss,
     quantity |-> IF o.position_size[1] = "absent" THEN Num(1) ELSE o.position_size]
ClaimedFails(o) ==
    ClaimedRiskInput(o).max_loss[1] # "num" \/ ClaimedRiskInput(o).quantity[1] # "num"

\* C18: check_risk_exposure returns False exactly when the computation fails or
\* max_loss x position_size x 100 exceeds portfolio_value x max_trade_size_pct.
ExposureVerdict ==
    lastExposure.called =>
        LET o == lastExposure.opportunity
            r == ClaimedRiskInput(o)
        IN lastExposure.ret =
               (~ClaimedFails(o) /\
                r.max_loss[2] * r.quantity[2] * 100 * 100
                    <= lastExposure.portfolio * max_trade_size_pct)

\* C18 witness: with max_loss absent the debit was used, and the call accepted a
\* trade risk equal to the cap (5 x 2 x 100 = 10% of 10000).
ExposureAtCapAccepted ==
    /\ lastExposure.called
    /\ lastExposure.opportunity.max_loss = <<"absent">>
    /\ lastExposure.opportunity.debit = Num(5)
    /\ lastExposure.opportunity.position_size = Num(2)
    /\ lastExposure.portfolio = 10000
    /\ lastExposure.ret

\* C16: is_trading_halted() is True whenever daily_loss >= daily_loss_limit, and
\* whenever the portfolio value is below 80% of the value the risk manager was
\* initialised with.
HaltOnEitherCondition ==
    (daily_loss >= daily_loss_limit \/ portfolio_value * 10 < InitialPortfolio * 8)
        => is_trading_halted

\* the remaining daily budget, in dollars
RemainingBudget == daily_loss_limit - Abs(daily_loss)

\* C17: calculate_max_trade_size() is portfolio_value x max_trade_size_pct when
\* the remaining daily budget is at least that, else max(0, half the remaining
\* budget); it is never negative, never above a positive remaining budget, and
\* never increases when daily_loss grows with the portfolio value fixed.
MaxTradeSizeRule ==
    /\ [](/\ calculate_max_trade_size =
               (IF RemainingBudget * 100 >= portfolio_value * max_trade_size_pct
                THEN portfolio_value * max_trade_size_pct
                ELSE IF RemainingBudget * 50 > 0 THEN RemainingBudget * 50 ELSE 0)
          /\ calculate_max_trade_size >= 0
          /\ (RemainingBudget > 0 => calculate_max_trade_size <= RemainingBudget * 100))
    /\ [][(portfolio_value' = portfolio_value /\ daily_loss' >= daily_loss)
             => calculate_max_trade_size' <= calculate_max_trade_size]_vars

\* C17 witness: after losses of 700 the remaining budget of 300 is below the
\* 10% cap, and the size is half of it.
HalfOfRemainingBudget ==
    /\ daily_loss = 700
    /\ RemainingBudget * 100 < portfolio_value * max_trade_size_pct
    /\ calculate_max_trade_size = 15000

\* C15: after the breaker has tripped and the date has advanced, the halt is
\* eventually cleared.
HaltClearsAfterMidnight ==
    (trading_halted /\ today # current_date) ~> ~is_trading_halted

\* the sequence s is a prefix of the sequence t
IsPrefix(s, t) == Len(s) <= Len(t) /\ \A i \in 1..Len(s) : s[i] = t[i]

CallerDone == {"returned", "raised", "RuntimeError", "TimeoutError"}

\* C20: every run_async call that is waiting eventually returns or raises.
CallersNeverBlockForever ==
    \A r \in Requests : (caller[r] = "waiting") ~> (caller[r] \in CallerDone)

\* C20 witness: a caller got the timeout error while no handler thread was
\* polling the queue (stopped, or stuck in an earlier request), its request
\* still queued.
TimeoutWithoutHandler ==
    \E r \in Requests :
        /\ caller[r] = "TimeoutError"
        /\ invoked[r] = 0
        /\ \A h \in HandlerThreads : hpc[h] # "polling"
        /\ \E h \in HandlerThreads : hpc[h] = "running"

\* C21: a call made through the handler from the handler's own thread is run
\* directly: it is never put on the request queue and the thread never waits
\* for it
OwnerThreadCallsDirectly ==
    \A h \in HandlerThreads :
        /\ hpc[h] # "blocked"
        /\ \A i \in 1..Len(request_queue) : request_queue[i] # hwait[h]

\* C22: at most one call into the broker client is in progress at any time
OneBrokerCallAtATime ==
    Cardinality({t \in Threads : InBrokerCall(t)}) <= 1

\* C23: whatever number of ticks have failed, the bot's loop is never ended by
\* its own exception handler
LoopNeverStopsItself == spc # "stopped"

\* C24: when a scan raises, what the other scans returned is still collected,
\* and the cycle goes on from the scans to the filter and the executions (or
\* straight to position management when nothing passes the filter) and from the
\* executions to position management
ScanFailureIsolated ==
    [][/\ (cpc[LoopCycle] = "scan" /\ cpc'[LoopCycle] # "scan") =>
            /\ cpc'[LoopCycle] \in {"execute", "manage"}
            /\ \A s \in Strategies :
                   scans[s] = "returned" =>
                       Range(scan_result[s]) \subseteq Range(all_opportunities')
            /\ cpc'[LoopCycle] = "execute" =>
                   /\ handed' # << >>
                   /\ Range(handed') \subseteq Range(all_opportunities')
            /\ cpc'[LoopCycle] = "manage" =>
                   \A t \in Range(all_opportunities') : ~PassesRiskFilter(t)
       /\ (cpc[LoopCycle] = "execute" /\ cpc'[LoopCycle] # "execute") =>
            cpc'[LoopCycle] = "manage"]_vars

\* the bull scan raised, the bear scan's opportunity was executed, and the
\* cycle has reached position management
OtherScanExecutedAfterFailure ==
    /\ scans["bull"] = "raised"
    /\ scans["bear"] = "returned"
    /\ handed = <<2>>
    /\ cpc[LoopCycle] = "manage"
    /\ last_execution_time

\* C25: no reader observes an intermediate state of update_daily_loss: a
\* snapshot returned by get_risk_metrics never shows daily_loss at or above
\* daily_loss_limit with trading_halted still False
ReadersSeeNoIntermediateState ==
    lastMetrics.read =>
        (lastMetrics.daily_loss >= daily_loss_limit => lastMetrics.trading_halted)

\* C26: when the broker client raises inside one of the wrapper's methods, the
\* caller receives that method's "no data" value (0.0, {}, [] or None) and not
\* an exception, and the wrapper's lock is free again when the method returns
WrapperFailureIsNoData ==
    [][\A t \in Threads :
          (lpc[t] = "wrapper" /\ lpc'[t] # "wrapper") =>
              /\ wrapper_lock' = "free"
              /\ lret'[t].outcome = "raise" =>
                     /\ lret'[t].value = NoData(lcall[t])
                     /\ lret'[t].value \in {"0.0", "{}", "[]", "None"}]_vars

\* the monitor's get_positions has raised in the client, it received [], and
\* the orchestrator is inside a wrapper method that it entered afterwards
CallProceedsAfterFailure ==
    /\ lret["monitor"] = [method |-> "get_positions", outcome |-> "raise", value |-> "[]"]
    /\ lpc["monitor"] = "idle"
    /\ lpc["orchestrator"] = "wrapper"
    /\ wrapper_lock = "orchestrator"

\* C27: every execute_trade call starts at least _min_execution_interval
\* seconds after the completion of the most recent successful execution; this
\* holds for each of the executions a cycle launches together
MinimumExecutionInterval ==
    \A t \in TimedTasks :
        (lastStart[t].task = t /\ lastStart[t].last # -1) =>
            lastStart[t].at - lastStart[t].last >= min_execution_interval

\* two executions of one cycle were launched less than the interval after a
\* successful execution, slept, and have both called execute_trade
TwoStartedAfterWaiting ==
    /\ last_execution_at # -1
    /\ \E t, u \in TimedTasks :
          /\ t # u
          /\ xpc[t] \in {"executing", "placed"}
          /\ xpc[u] \in {"executing", "placed"}
          /\ lastStart[t] = [task |-> t, at |-> now, last |-> last_execution_at]
          /\ lastStart[u] = [task |-> u, at |-> now, last |-> last_execution_at]
          /\ now - last_execution_at = min_execution_interval

\* C28: the opportunities a cycle hands to execution are the first (up to)
\* three, in descending score order, of the merged opportunities that pass
\* can_open_position, check_risk_exposure and check_volatility_limits, and no
\* other opportunity is executed
TopThreeHandedOver ==
    [][/\ (cpc[LoopCycle] = "scan" /\ cpc'[LoopCycle] # "scan") =>
            LET passing == {t \in Range(all_opportunities') : PassesRiskFilter(t)}
                n == Len(handed')
            IN /\ Range(handed') \subseteq passing
               /\ n = IF Cardinality(passing) < max_executions_per_cycle
                      THEN Cardinality(passing) ELSE max_executions_per_cycle
               /\ \A i, j \in 1..n :
                      i < j => /\ handed'[i] # handed'[j]
                               /\ Score(handed'[i]) >= Score(handed'[j])
               /\ \A t \in Range(handed'), u \in passing \ Range(handed') :
                      Score(u) <= Score(t)
               /\ \A t \in Tasks : tpc'[t] # "idle" <=> t \in Range(handed')
       /\ \A t \in Tasks :
              (tpc[t] = "idle" /\ tpc'[t] # "idle") => t \in Range(handed')]_vars

\* four opportunities were merged; one that scores higher than two of the
\* others failed the filter, and the other three were handed over
BetterOpportunityFilteredOut ==
    /\ cpc[LoopCycle] = "execute"
    /\ Len(all_opportunities) > max_executions_per_cycle
    /\ Len(handed) = max_executions_per_cycle
    /\ \A t \in Range(handed) : tpc[t] = "acquired"
    /\ \E u \in Range(all_opportunities) \ Range(handed) :
          /\ ~PassesRiskFilter(u)
          /\ Score(u) > Score(handed[2])
          /\ Score(u) > Score(handed[3])

\* the position of run_trading_cycle among its steps
StepRank(pc) ==
    CASE pc = "check" -> 1
      [] pc = "gather" -> 2
      [] pc = "update" -> 3
      [] pc = "screen" -> 4
      [] pc = "scan" -> 5
      [] pc = "execute" -> 6
      [] pc = "manage" -> 7
      [] OTHER -> 0

\* scans run only in the scan step, executions only in the execution step and
\* after every scan, and position management only after both
OneStepAtATime ==
    /\ (\E s \in Strategies : scans[s] = "running") => cpc[LoopCycle] = "scan"
    /\ (\E t \in Tasks : tpc[t] # "idle") =>
           /\ cpc[LoopCycle] = "execute"
           /\ \A s \in Strategies : scans[s] # "running"
    /\ cpc[LoopCycle] = "manage" =>
           /\ \A s \in Strategies : scans[s] # "running"
           /\ \A t \in Tasks : tpc[t] = "idle"

\* C29: the steps of one cycle run strictly in sequence (halt check, scans,
\* executions, position management, each finished before the next starts), and
\* a cycle whose halt check finds is_trading_halted() true performs none of them
StepsInSequence ==
    [][/\ OneStepAtATime'
       /\ (cpc'[LoopCycle] # cpc[LoopCycle] /\ cpc'[LoopCycle] # "idle") =>
              StepRank(cpc'[LoopCycle]) > StepRank(cpc[LoopCycle])
       /\ (cpc[LoopCycle] = "check" /\ cpc'[LoopCycle] # "check" /\ is_trading_halted) =>
              /\ cpc'[LoopCycle] = "idle"
              /\ UNCHANGED <<scans, tpc, handed>>]_vars

\* two scans returned, their opportunities were executed with success, and
\* the cycle is managing positions
ManagingAfterScansAndExecutions ==
    /\ cpc[LoopCycle] = "manage"
    /\ Cardinality({s \in Strategies : scans[s] = "returned"}) >= 2
    /\ Len(handed) >= 2
    /\ last_execution_time

\* C30: the thread that holds the risk manager's lock is never inside a broker
\* call: positions are fetched and closing orders placed outside the critical
\* sections, which only update memory
NoBrokerCallUnderRiskLock ==
    \A t \in Threads : risk_lock = t => ~InBrokerCall(t)

\* the monitor's closing order has returned from the broker client and the
\* monitor is now inside cleanup_trade's critical section
CleanupAfterClosingOrder ==
    /\ lret["monitor"] # NoReturn
    /\ lret["monitor"].method = "ib.placeOrder"
    /\ risk_lock = "monitor"
    /\ lpc["monitor"] = "risk"
    /\ lcall["monitor"] = "cleanup_trade"

\* C31: a request whose caller has timed out stays in the queue with its
\* Future pending, and the handler loop invokes whatever request is at the
\* head of the queue, whether or not its caller is still waiting
TimedOutRequestStaysQueued ==
    [][/\ \A r \in Requests :
              (caller[r] = "waiting" /\ caller'[r] = "TimeoutError") =>
                  /\ request_queue' = request_queue
                  /\ future'[r] = "pending"
                  /\ invoked'[r] = invoked[r]
       /\ \A h \in HandlerThreads :
              (hpc[h] = "polling" /\ hpc'[h] = "running") =>
                  /\ hcur'[h] = Head(request_queue)
                  /\ invoked'[hcur'[h]] = invoked[hcur'[h]] + 1]_vars

\* a request was invoked after its caller had received the timeout error, and
\* its function has run to the end
InvokedAfterCallerTimedOut ==
    \E r \in Requests :
        /\ r \in late_invoked
        /\ caller[r] = "TimeoutError"
        /\ invoked[r] = 1
        /\ future[r] = "result"

\* C32: every stop-loss close of position management with a negative
\* unrealized P&L and a placed closing order, whichever strategy asked for it,
\* adds the loss to daily_loss through update_daily_loss
StopLossCloseRecordsLoss ==
    (/\ lastClose.reason \in StopLossReasons
     /\ lastClose.order_placed
     /\ lastClose.unrealizedPNL < 0) => lastClose.recorded

\* the larger of 1 and n
AtLeastOne(n) == IF n < 1 THEN 1 ELSE n

\* C33: _calculate_position_size returns an integer from 1 to 10: 1 when the
\* computation raises, else the smallest of the risk-cap count, the Kelly count
\* and 10, raised to 1 (so 1 when both counts are 0)
PositionSizeBetween1And10 ==
    lastSize.called =>
        LET risk == ContractsByRisk(lastSize.capital, lastSize.metrics)
            kelly == ContractsByKelly(lastSize.capital, lastSize.metrics)
        IN /\ lastSize.size \in 1..max_contracts
           /\ lastSize.raised => lastSize.size = 1
           /\ ~lastSize.raised =>
                  /\ lastSize.size <= AtLeastOne(risk)
                  /\ lastSize.size <= AtLeastOne(kelly)
                  /\ lastSize.size \in {AtLeastOne(risk), AtLeastOne(kelly), max_contracts}
                  /\ (risk = 0 /\ kelly = 0) => lastSize.size = 1

\* nothing raised, both contract counts are 0 and the size returned is 1
SizeOneWhenBothCountsZero ==
    /\ lastSize.called
    /\ ~lastSize.raised
    /\ ContractsByRisk(lastSize.capital, lastSize.metrics) = 0
    /\ ContractsByKelly(lastSize.capital, lastSize.metrics) = 0
    /\ lastSize.size = 1

SemaphoreFreeAfterEveryExit ==
    /\ [](cycle_sem = 1 - Cardinality({c \in Cycles : InBody(c)}))
    /\ [][\A c \in Cycles : (InBody(c) /\ ~InBody(c)') => cycle_sem' = cycle_sem + 1]_vars
    /\ \A c \in Cycles : (cpc[c] = "waiting") ~> InBody(c)

\* an invocation that had to wait for the cycle semaphore is inside the body
WaitingInvocationEntered ==
    \E c \in Cycles : entered_waiting[c] /\ InBody(c)

\* C36: once stop() has been called no invocation enters the cycle body: every
\* step in which an invocation enters the body is taken while running is true,
\* also by an invocation that was waiting for the cycle semaphore
NoEntryAfterStop ==
    [][\A c \in Cycles : (~InBody(c) /\ InBody(c)') => running]_vars

\* a step in which the monitor evaluates the exit conditions of a position
MonitorEvaluates == mpc = "check" /\ mon_todo' # mon_todo
\* a step in which the monitor places a closing order
MonitorPlacesClose == mpc = "closing" /\ mpc' = "cleanup" /\ failed_close' = ""

\* C37 as stated: in no step taken while is_trading_halted() is true does the
\* monitor evaluate an exit condition or place a closing order
NoExitWorkWhileHalted ==
    [][is_trading_halted => ~MonitorEvaluates /\ ~MonitorPlacesClose]_vars

\* C37: an iteration of the monitor loop that begins while is_trading_halted()
\* is true is skipped: the monitor stays asleep, evaluates no exit condition and
\* takes no position to close
HaltedIterationIsSkipped ==
    [][(mpc = "sleep" /\ is_trading_halted) =>
           (mpc' = "sleep" /\ lastExit' = lastExit /\ mon_todo' = mon_todo
            /\ mon_pos' = mon_pos)]_vars

\* the monitor has just skipped an iteration while positions are open
SkippedIterationWithOpenPositions ==
    /\ poll_skipped
    /\ mpc = "sleep"
    /\ is_trading_halted
    /\ positions # {}

\* C38: once check_exit_conditions has signalled a close the iteration does not
\* end before the cleanup, the cleanup removes the position's trailing state
\* and entry price whether or not the closing order was placed, and a position
\* the monitor starts to track is recorded at its average cost and evaluated
\* with no trailing state
CloseSignalAlwaysCleansUp ==
    /\ [][(mpc \in {"closing", "cleanup"}) =>
              (mpc' = "closing" \/ mpc' = "cleanup" \/ mpc' = "check")]_vars
    /\ [][(mpc = "cleanup" /\ mpc' # "cleanup") =>
              /\ mon_pos \notin DOMAIN position_entry_prices'
              /\ mon_pos \notin DOMAIN trailing_stops'
              /\ mon_pos \notin DOMAIN highest_profits']_vars
    /\ [][\A p \in TradeIds :
              (p \notin DOMAIN position_entry_prices /\ p \in DOMAIN position_entry_prices') =>
                  /\ position_entry_prices'[p] = AvgCost
                  /\ lastExit'.trade = p
                  /\ lastExit'.entry = AvgCost
                  /\ ~lastExit'.had]_vars

\* the closing order failed, the position is still open, and the monitor has
\* removed its entry price and trailing state
CleanedUpAfterFailedClose ==
    /\ failed_close # ""
    /\ mpc = "check"
    /\ lastExit.trade = failed_close
    /\ lastExit.reason = "cleanup"
    /\ failed_close \in positions
    /\ failed_close \notin DOMAIN position_entry_prices
    /\ failed_close \notin DOMAIN trailing_stops

StopIsTerminal ==
    /\ [][shutdown_event => shutdown_event']_vars
    /\ [][shutdown_event =>
              /\ invocations' = invocations
              /\ \A h \in HandlerThreads :
                     hpc[h] = "polling" => (hpc'[h] = "polling" \/ hpc'[h] = "exited")]_vars
    /\ [](\A r \in queued_after_stop :
              /\ invoked[r] = 0
              /\ future[r] = "pending"
              /\ caller[r] = "waiting" \/ caller[r] = "TimeoutError")

\* after stop() and a second start() the new loop has exited and a call queued
\* after the stop has timed out
TimeoutAfterRestart ==
    /\ h_started
    /\ shutdown_event
    /\ threads_spawned = 2
    /\ hpc[2] = "exited"
    /\ \E r \in queued_after_stop : caller[r] = "TimeoutError"

====
